---- MODULE Spec2Model ----
(***************************************************************************)
(* Model of the real-estate investment analyzer: the four agents           *)
(* (MarketAnalyzer, PropertyEvaluator, FinancialCalculator,                *)
(* DecisionEngine) and the loop of main() that runs them over a list of    *)
(* properties.                                                             *)
(***************************************************************************)
EXTENDS Integers, Sequences, FiniteSets, TLC

VARIABLES
    clock,        \* the year datetime.now().year returns
    market_data,  \* the city table of get_market_data
    properties,   \* the list main() iterates over
    idx,          \* position of the loop of main() in properties
    pc,           \* stage of analyze_property the program is at
    results,      \* the results dict of the running analyze_property
    all_results,  \* the list main() appends each finished result to
    output_file   \* the list save_results writes to analysis_results.json

vars == <<clock, market_data, properties, idx, pc, results, all_results, output_file>>

(***************************************************************************)
(* IEEE-754 binary64 arithmetic, as Python floats compute.                 *)
(* A float is <<s, e, m1, m2, m3, m4>>: sign s (1 for negative), and the   *)
(* value m * 2^e with the 53-bit mantissa m = m1 + m2*L + m3*L^2 + m4*L^3  *)
(* in limbs of 14 bits (L = 2^14), 2^52 <= m < 2^53.  Zero is all zeros.   *)
(* Every operation computes the exact result and rounds it to nearest,     *)
(* ties to even.  Naturals in intermediate results are tuples of 8 limbs.  *)
(***************************************************************************)
Limb == 2^14

\* the limbs of the number whose columns are c, from column k on with carry
\* in; the top limb keeps what is left (negative when the number is)
RECURSIVE Carry(_, _, _)
Carry(c, k, in) ==
    IF k = Len(c) THEN <<c[k] + in>>
    ELSE <<(c[k] + in) % Limb>> \o Carry(c, k + 1, (c[k] + in) \div Limb)

Carry8(c) == Carry(c, 1, 0)

At(n, i) == IF i >= 1 /\ i <= 8 THEN n[i] ELSE 0

TopIdx(n) ==
    IF n[8] # 0 THEN 8 ELSE IF n[7] # 0 THEN 7 ELSE IF n[6] # 0 THEN 6
    ELSE IF n[5] # 0 THEN 5 ELSE IF n[4] # 0 THEN 4 ELSE IF n[3] # 0 THEN 3
    ELSE IF n[2] # 0 THEN 2 ELSE IF n[1] # 0 THEN 1 ELSE 0

\* number of bits of a limb v, 0 < v < 2^14
BitLen14(v) ==
    IF v >= 128
    THEN (IF v >= 2048
          THEN (IF v >= 8192 THEN 14 ELSE IF v >= 4096 THEN 13 ELSE 12)
          ELSE (IF v >= 512 THEN (IF v >= 1024 THEN 11 ELSE 10)
                ELSE IF v >= 256 THEN 9 ELSE 8))
    ELSE (IF v >= 8
          THEN (IF v >= 32 THEN (IF v >= 64 THEN 7 ELSE 6)
                ELSE IF v >= 16 THEN 5 ELSE 4)
          ELSE IF v >= 4 THEN 3 ELSE IF v >= 2 THEN 2 ELSE 1)

BitLen(n) == 14 * (TopIdx(n) - 1) + BitLen14(n[TopIdx(n)])

\* n \div 2^d and n * 2^d (the bits beyond 8 limbs are dropped), for
\* d = 14 * k + j, lo = 2^j and hi = 2^(14 - j)
ShRBy(n, k, lo, hi) ==
    <<(At(n, 1 + k) \div lo) + (At(n, 2 + k) % lo) * hi,
      (At(n, 2 + k) \div lo) + (At(n, 3 + k) % lo) * hi,
      (At(n, 3 + k) \div lo) + (At(n, 4 + k) % lo) * hi,
      (At(n, 4 + k) \div lo) + (At(n, 5 + k) % lo) * hi,
      (At(n, 5 + k) \div lo) + (At(n, 6 + k) % lo) * hi,
      (At(n, 6 + k) \div lo) + (At(n, 7 + k) % lo) * hi,
      (At(n, 7 + k) \div lo) + (At(n, 8 + k) % lo) * hi,
      (At(n, 8 + k) \div lo)>>

ShR(n, d) == ShRBy(n, d \div 14, 2^(d % 14), 2^(14 - (d % 14)))

ShLBy(n, k, lo, hi) ==
    <<(At(n, 1 - k) % hi) * lo + (At(n, 0 - k) \div hi),
      (At(n, 2 - k) % hi) * lo + (At(n, 1 - k) \div hi),
      (At(n, 3 - k) % hi) * lo + (At(n, 2 - k) \div hi),
      (At(n, 4 - k) % hi) * lo + (At(n, 3 - k) \div hi),
      (At(n, 5 - k) % hi) * lo + (At(n, 4 - k) \div hi),
      (At(n, 6 - k) % hi) * lo + (At(n, 5 - k) \div hi),
      (At(n, 7 - k) % hi) * lo + (At(n, 6 - k) \div hi),
      (At(n, 8 - k) % hi) * lo + (At(n, 7 - k) \div hi)>>

ShL(n, d) == ShLBy(n, d \div 14, 2^(d % 14), 2^(14 - (d % 14)))

\* bit j of n (bit 0 is the lowest), and whether n has a bit set below bit j
Bit(n, j) == (At(n, j \div 14 + 1) \div 2^(j % 14)) % 2

LowBits(n, j) ==
    \/ At(n, j \div 14 + 1) % 2^(j % 14) # 0
    \/ \E i \in 1..(j \div 14) : n[i] # 0

NatLt(a, b) ==
    IF a[8] # b[8] THEN a[8] < b[8] ELSE IF a[7] # b[7] THEN a[7] < b[7]
    ELSE IF a[6] # b[6] THEN a[6] < b[6] ELSE IF a[5] # b[5] THEN a[5] < b[5]
    ELSE IF a[4] # b[4] THEN a[4] < b[4] ELSE IF a[3] # b[3] THEN a[3] < b[3]
    ELSE IF a[2] # b[2] THEN a[2] < b[2] ELSE a[1] < b[1]

\* the value of a natural below 2^31
NatInt(q) == q[1] + Limb * (q[2] + Limb * q[3])

FZero == <<0, 0, 0, 0, 0, 0>>

Mant(x) == <<x[3], x[4], x[5], x[6], 0, 0, 0, 0>>

MkFloat(s, e, m) == <<s, e, m[1], m[2], m[3], m[4]>>

\* the mantissa r = q + 1 of a result rounded up, which may reach 2^53
PackUp(s, e, r) ==
    IF r[4] = 2^11 THEN <<s, e + 1, 0, 0, 0, 2^10>> ELSE MkFloat(s, e, r)

\* n of more than 53 bits, cut to q = n \div 2^d and rounded on the bits cut
PackRound(s, e, n, d, sticky, q) ==
    IF Bit(n, d - 1) = 1 /\ (sticky \/ LowBits(n, d - 1) \/ q[1] % 2 = 1)
    THEN PackUp(s, e + d, Carry8(<<q[1] + 1, q[2], q[3], q[4], 0, 0, 0, 0>>))
    ELSE MkFloat(s, e + d, q)

PackLen(s, e, n, sticky, len) ==
    IF len <= 53 THEN MkFloat(s, e - (53 - len), ShL(n, 53 - len))
    ELSE PackRound(s, e, n, len - 53, sticky, ShR(n, len - 53))

\* the float nearest to (-1)^s * n * 2^e; sticky says that the exact value is
\* above n * 2^e by less than 2^e
Pack(s, e, n, sticky) ==
    IF TopIdx(n) = 0 THEN FZero ELSE PackLen(s, e, n, sticky, BitLen(n))

FAbs(s, a) ==
    Pack(s, 0, <<a % Limb, (a \div Limb) % Limb, a \div (Limb * Limb), 0, 0, 0, 0, 0>>, FALSE)

FInt(i) == IF i < 0 THEN FAbs(1, 0 - i) ELSE FAbs(0, i)

FNeg(x) == IF x = FZero THEN x ELSE <<1 - x[1], x[2], x[3], x[4], x[5], x[6]>>

FMul(a, b) ==
    IF a = FZero \/ b = FZero THEN FZero
    ELSE Pack((a[1] + b[1]) % 2, a[2] + b[2],
              Carry8(<<a[3] * b[3],
                       a[3] * b[4] + a[4] * b[3],
                       a[3] * b[5] + a[4] * b[4] + a[5] * b[3],
                       a[3] * b[6] + a[4] * b[5] + a[5] * b[4] + a[6] * b[3],
                       a[4] * b[6] + a[5] * b[5] + a[6] * b[4],
                       a[5] * b[6] + a[6] * b[5],
                       a[6] * b[6],
                       0>>), FALSE)

\* the sign and the limbs of the signed sum of the aligned mantissas a (of sign
\* sa) and b (of sign sb); borrow is 1 when b stands for a number above it by
\* less than 1, and a is then the larger one
SignedSum(sa, sb, a, b, borrow) ==
    IF sa = sb
    THEN <<sa, Carry8(<<a[1] + b[1], a[2] + b[2], a[3] + b[3], a[4] + b[4],
                        a[5] + b[5], a[6] + b[6], a[7] + b[7], a[8] + b[8]>>)>>
    ELSE IF NatLt(a, b)
    THEN <<sb, Carry8(<<b[1] - a[1], b[2] - a[2], b[3] - a[3], b[4] - a[4],
                        b[5] - a[5], b[6] - a[6], b[7] - a[7], b[8] - a[8]>>)>>
    ELSE <<sa, Carry8(<<a[1] - b[1] - borrow, a[2] - b[2], a[3] - b[3], a[4] - b[4],
                        a[5] - b[5], a[6] - b[6], a[7] - b[7], a[8] - b[8]>>)>>

PackSigned(e, r, sticky) == Pack(r[1], e, r[2], sticky)

\* a + b or a - b at the exponent e, b being cut: with sticky the exact b is
\* above the limbs b by less than 1, and a is above it
AddCut(sa, sb, e, a, b, sticky) ==
    PackSigned(e, SignedSum(sa, sb, a, b, IF sticky THEN 1 ELSE 0), sticky)

AddAligned(sa, sb, e, a, b) == AddCut(sa, sb, e, a, b, FALSE)

\* x + y for nonzero x, y with x[2] >= y[2]
AddOrdered(x, y) ==
    IF x[2] - y[2] > 56 THEN x
    ELSE AddAligned(x[1], y[1], y[2], ShL(Mant(x), x[2] - y[2]), Mant(y))

FAdd(a, b) ==
    IF a = FZero THEN b
    ELSE IF b = FZero THEN a
    ELSE AddOrdered(IF a[2] >= b[2] THEN a ELSE b, IF a[2] >= b[2] THEN b ELSE a)

FSub(a, b) == FAdd(a, FNeg(b))

\* r - q*d on 5 limbs (d has 4 limbs); the top limb goes negative when q is too big
SubMul5(r, d, q) ==
    Carry(<<r[1] - q * d[1], r[2] - q * d[2], r[3] - q * d[3], r[4] - q * d[4], r[5]>>, 1, 0)

AddBack5(r, d) ==
    Carry(<<r[1] + d[1], r[2] + d[2], r[3] + d[3], r[4] + d[4], r[5]>>, 1, 0)

\* the quotient limb q is lowered until the remainder t = r - q*d is not negative
RECURSIVE DivFix(_, _, _, _)
DivFix(st, d, q, t) ==
    IF t[5] < 0 THEN DivFix(st, d, q - 1, AddBack5(t, d))
    ELSE <<t[1], t[2], t[3], t[4], q>> \o SubSeq(st, 5, Len(st))

DivTry(st, d, r, qh) == DivFix(st, d, qh, SubMul5(r, d, qh))

\* one limb of a long division by d (Knuth's algorithm D): st is the remainder
\* (4 limbs, below d) followed by the quotient limbs found so far, and limb is
\* the next limb of the dividend
DivStep(st, d, limb) ==
    DivTry(st, d, <<limb, st[1], st[2], st[3], st[4]>>,
           IF (st[4] * Limb + st[3]) \div d[4] > Limb - 1 THEN Limb - 1
           ELSE (st[4] * Limb + st[3]) \div d[4])

DivPack(s, e, q5, s4) ==
    Pack(s, e, <<s4[5], s4[6], s4[7], s4[8], q5, 0, 0, 0>>,
         s4[1] # 0 \/ s4[2] # 0 \/ s4[3] # 0 \/ s4[4] # 0)

DivFrom(s, e, d, q5, r0) ==
    DivPack(s, e, q5,
            DivStep(DivStep(DivStep(DivStep(<<r0[1], r0[2], r0[3], r0[4]>>, d, 0), d, 0),
                            d, 0), d, 0))

DivLead(s, e, n, d, q5) ==
    DivFrom(s, e, d, q5, SubMul5(<<n[1], n[2], n[3], n[4], 0>>, d, q5))

DivNorm(s, e, n, d) == DivLead(s, e, n, d, IF NatLt(n, d) THEN 0 ELSE 1)

FDiv(a, b) ==
    IF a = FZero THEN FZero
    ELSE DivNorm((a[1] + b[1]) % 2, a[2] - b[2] - 56,
                 Carry8(<<8 * a[3], 8 * a[4], 8 * a[5], 8 * a[6], 0, 0, 0, 0>>),
                 Carry8(<<8 * b[3], 8 * b[4], 8 * b[5], 8 * b[6], 0, 0, 0, 0>>))

MagLt(x, y) ==
    IF y = FZero THEN FALSE
    ELSE IF x = FZero THEN TRUE
    ELSE IF x[2] # y[2] THEN x[2] < y[2]
    ELSE NatLt(Mant(x), Mant(y))

FLt(a, b) ==
    IF a[1] # b[1] THEN a[1] = 1
    ELSE IF a[1] = 0 THEN MagLt(a, b) ELSE MagLt(b, a)

FLe(a, b) == ~FLt(b, a)
FMin(a, b) == IF FLt(b, a) THEN b ELSE a
FMax(a, b) == IF FLt(a, b) THEN b ELSE a

\* Python int(x): the integer part, cut toward zero (below 2^31)
FTrunc(x) ==
    IF x = FZero \/ x[2] <= 0 - 53 THEN 0
    ELSE IF x[1] = 1 THEN 0 - NatInt(ShR(Mant(x), 0 - x[2]))
    ELSE NatInt(ShR(Mant(x), 0 - x[2]))

\* v = t \div 2^d, rounded on the bits cut, with the sign s
RoundCut(s, t, d, v) ==
    IF Bit(t, d - 1) = 1 /\ (LowBits(t, d - 1) \/ v % 2 = 1)
    THEN (IF s = 1 THEN 0 - (v + 1) ELSE v + 1)
    ELSE (IF s = 1 THEN 0 - v ELSE v)

RoundShift(s, t, d) == RoundCut(s, t, d, NatInt(ShR(t, d)))

RoundTimes(x, p) ==
    RoundShift(x[1], Carry8(<<p * x[3], p * x[4], p * x[5], p * x[6], 0, 0, 0, 0>>), 0 - x[2])

\* the nearest integer to x * 10^k, ties to even (below 2^31)
RoundScaled(x, k) ==
    IF x = FZero \/ x[2] <= 0 - 62 THEN 0 ELSE RoundTimes(x, 10^k)

(* Fused multiply-add: a * b + c computed exactly and rounded once.  The   *)
(* operand with the higher leading bit is placed with that bit near the    *)
(* top of 8 limbs and the other one is aligned to it; the bits of the      *)
(* other one that fall below the 8 limbs are cut and remembered as sticky. *)
\* the exact product of the mantissas of a and b
MantProd(a, b) ==
    Carry8(<<a[3] * b[3],
             a[3] * b[4] + a[4] * b[3],
             a[3] * b[5] + a[4] * b[4] + a[5] * b[3],
             a[3] * b[6] + a[4] * b[5] + a[5] * b[4] + a[6] * b[3],
             a[4] * b[6] + a[5] * b[5] + a[6] * b[4],
             a[5] * b[6] + a[6] * b[5],
             a[6] * b[6],
             0>>)

\* b * 2^(0 - d) on 8 limbs: b moved up by -d bits, or cut by d bits
Shifted(b, d) ==
    IF d <= 0 THEN ShL(b, 0 - d)
    ELSE IF d >= 112 THEN <<0, 0, 0, 0, 0, 0, 0, 0>>
    ELSE ShR(b, d)

\* a * 2^e + b * 2^(e - d), for b # 0
AddShifted(sa, sb, e, a, b, d) ==
    AddCut(sa, sb, e, a, Shifted(b, d), d > 0 /\ (d >= 112 \/ LowBits(b, d)))

AddAnchored(t) == AddShifted(t[1], t[2], t[3], t[4], t[5], t[6])

\* p * 2^ep + c * 2^ec for the product p of two mantissas and a mantissa c
FmaAligned(sp, ep, p, sc, ec, c) ==
    AddAnchored(IF ep + BitLen(p) >= ec + 53
                THEN <<sp, sc, ep - 4, ShL(p, 4), c, ep - 4 - ec>>
                ELSE <<sc, sp, ec - 57, ShL(c, 57), p, ec - 57 - ep>>)

FFma(a, b, c) ==
    IF a = FZero \/ b = FZero THEN c
    ELSE IF c = FZero THEN FMul(a, b)
    ELSE FmaAligned((a[1] + b[1]) % 2, a[2] + b[2], MantProd(a, b), c[1], c[2], Mant(c))

(***************************************************************************)
(* Powers.  Python's float ** calls pow() of the C library (float_pow of   *)
(* CPython).  The result of pow() is not always the float nearest to the   *)
(* exact power: it is the one the library's algorithm produces.  This is   *)
(* pow() of the GNU C library 2.36 for x86-64 processors with fused        *)
(* multiply-add, operation by operation: exp(y * log(x)) with log(x) and   *)
(* the product held as a sum of two floats, and tables of 128 entries.     *)
(***************************************************************************)
Ln2hi == <<0, 0 - 53, 14336, 15336, 9263, 1419>>
Ln2lo == <<0, 0 - 97, 10032, 3869, 13689, 1980>>
LogA0 == <<1, 0 - 53, 0, 0, 0, 1024>>
LogA1 == <<1, 0 - 53, 5472, 5461, 5461, 1365>>
LogA2 == <<0, 0 - 53, 6, 0, 0, 1024>>
LogA3 == <<0, 0 - 53, 5454, 9573, 6553, 1638>>
LogA4 == <<1, 0 - 53, 9338, 5286, 5461, 1365>>
LogA5 == <<1, 0 - 52, 1513, 11553, 5561, 1170>>
LogA6 == <<0, 0 - 52, 16323, 11416, 696, 1024>>

\* T[i] of the logarithm: invc, logc and logctail for the i-th interval of z
pow_log_tab(i) ==
    CASE i = 0 -> << <<0, 0 - 52, 0, 0, 0, 1448>>,
                      <<1, 0 - 54, 2048, 2791, 2095, 1419>>,
                      <<0, 0 - 100, 5760, 8413, 578, 1709>> >>
      [] i = 1 -> << <<0, 0 - 52, 0, 0, 0, 1440>>,
                      <<1, 0 - 54, 2048, 15712, 7131, 1396>>,
                      <<1, 0 - 98, 14112, 9091, 4237, 1833>> >>
      [] i = 2 -> << <<0, 0 - 52, 0, 0, 0, 1432>>,
                      <<1, 0 - 54, 6144, 7445, 10097, 1373>>,
                      <<1, 0 - 97, 4205, 5849, 10829, 1240>> >>
      [] i = 3 -> << <<0, 0 - 52, 0, 0, 0, 1424>>,
                      <<1, 0 - 54, 14336, 7351, 10968, 1350>>,
                      <<1, 0 - 101, 10197, 15041, 3657, 1441>> >>
      [] i = 4 -> << <<0, 0 - 52, 0, 0, 0, 1416>>,
                      <<1, 0 - 54, 14336, 5597, 9721, 1327>>,
                      <<1, 0 - 99, 16096, 3236, 13977, 1286>> >>
      [] i = 5 -> << <<0, 0 - 52, 0, 0, 0, 1408>>,
                      <<1, 0 - 54, 8192, 2161, 6332, 1304>>,
                      <<0, 0 - 98, 1228, 8498, 756, 1270>> >>
      [] i = 6 -> << <<0, 0 - 52, 0, 0, 0, 1400>>,
                      <<1, 0 - 54, 10240, 6682, 776, 1281>>,
                      <<0, 0 - 102, 2874, 13832, 12094, 1808>> >>
      [] i = 7 -> << <<0, 0 - 52, 0, 0, 0, 1392>>,
                      <<1, 0 - 54, 2048, 5541, 9413, 1257>>,
                      <<0, 0 - 97, 5216, 6470, 7272, 1068>> >>
      [] i = 8 -> << <<0, 0 - 52, 0, 0, 0, 1384>>,
                      <<1, 0 - 54, 0, 10850, 15833, 1233>>,
                      <<0, 0 - 97, 146, 4886, 5341, 1366>> >>
      [] i = 9 -> << <<0, 0 - 52, 0, 0, 0, 1376>>,
                      <<1, 0 - 54, 8192, 11140, 3627, 1210>>,
                      <<0, 0 - 97, 11224, 9948, 12777, 1438>> >>
      [] i = 10 -> << <<0, 0 - 52, 0, 0, 0, 1368>>,
                      <<1, 0 - 54, 2048, 3962, 5537, 1186>>,
                      <<0, 0 - 98, 12351, 6974, 8523, 1394>> >>
      [] i = 11 -> << <<0, 0 - 52, 0, 0, 0, 1368>>,
                      <<1, 0 - 54, 2048, 3962, 5537, 1186>>,
                      <<0, 0 - 98, 12351, 6974, 8523, 1394>> >>
      [] i = 12 -> << <<0, 0 - 52, 0, 0, 0, 1360>>,
                      <<1, 0 - 54, 14336, 12093, 5151, 1162>>,
                      <<1, 0 - 98, 6774, 8527, 8770, 1430>> >>
      [] i = 13 -> << <<0, 0 - 52, 0, 0, 0, 1352>>,
                      <<1, 0 - 54, 6144, 1446, 2444, 1138>>,
                      <<1, 0 - 98, 5124, 9117, 15302, 2027>> >>
      [] i = 14 -> << <<0, 0 - 52, 0, 0, 0, 1344>>,
                      <<1, 0 - 54, 10240, 11950, 13770, 1113>>,
                      <<0, 0 - 98, 10480, 3594, 15459, 1991>> >>
      [] i = 15 -> << <<0, 0 - 52, 0, 0, 0, 1336>>,
                      <<1, 0 - 54, 2048, 9913, 6335, 1089>>,
                      <<1, 0 - 97, 6758, 13333, 3151, 1450>> >>
      [] i = 16 -> << <<0, 0 - 52, 0, 0, 0, 1328>>,
                      <<1, 0 - 54, 4096, 2510, 12878, 1064>>,
                      <<1, 0 - 99, 782, 15312, 16103, 1818>> >>
      [] i = 17 -> << <<0, 0 - 52, 0, 0, 0, 1320>>,
                      <<1, 0 - 54, 4096, 4819, 601, 1040>>,
                      <<1, 0 - 100, 11647, 15312, 11145, 1037>> >>
      [] i = 18 -> << <<0, 0 - 52, 0, 0, 0, 1320>>,
                      <<1, 0 - 54, 4096, 4819, 601, 1040>>,
                      <<1, 0 - 100, 11647, 15312, 11145, 1037>> >>
      [] i = 19 -> << <<0, 0 - 52, 0, 0, 0, 1312>>,
                      <<1, 0 - 55, 0, 13689, 4486, 2030>>,
                      <<0, 0 - 99, 15495, 11876, 12970, 1877>> >>
      [] i = 20 -> << <<0, 0 - 52, 0, 0, 0, 1304>>,
                      <<1, 0 - 55, 8192, 12145, 2780, 1980>>,
                      <<0, 0 - 97, 12068, 12826, 11129, 1737>> >>
      [] i = 21 -> << <<0, 0 - 52, 0, 0, 0, 1296>>,
                      <<1, 0 - 55, 12288, 14507, 12406, 1929>>,
                      <<1, 0 - 98, 16144, 4351, 13557, 1483>> >>
      [] i = 22 -> << <<0, 0 - 52, 0, 0, 0, 1288>>,
                      <<1, 0 - 55, 0, 11583, 534, 1879>>,
                      <<0, 0 - 97, 10267, 12073, 10523, 1134>> >>
      [] i = 23 -> << <<0, 0 - 52, 0, 0, 0, 1280>>,
                      <<1, 0 - 55, 8192, 7786, 16252, 1827>>,
                      <<0, 0 - 97, 1076, 8830, 5366, 1502>> >>
      [] i = 24 -> << <<0, 0 - 52, 0, 0, 0, 1280>>,
                      <<1, 0 - 55, 8192, 7786, 16252, 1827>>,
                      <<0, 0 - 97, 1076, 8830, 5366, 1502>> >>
      [] i = 25 -> << <<0, 0 - 52, 0, 0, 0, 1272>>,
                      <<1, 0 - 55, 4096, 4278, 10343, 1776>>,
                      <<0, 0 - 98, 14223, 1582, 11011, 1619>> >>
      [] i = 26 -> << <<0, 0 - 52, 0, 0, 0, 1264>>,
                      <<1, 0 - 55, 0, 14851, 15508, 1724>>,
                      <<0, 0 - 104, 4198, 16182, 9779, 1683>> >>
      [] i = 27 -> << <<0, 0 - 52, 0, 0, 0, 1256>>,
                      <<1, 0 - 55, 12288, 16266, 15297, 1672>>,
                      <<1, 0 - 97, 490, 12571, 1613, 1379>> >>
      [] i = 28 -> << <<0, 0 - 52, 0, 0, 0, 1256>>,
                      <<1, 0 - 55, 12288, 16266, 15297, 1672>>,
                      <<1, 0 - 97, 490, 12571, 1613, 1379>> >>
      [] i = 29 -> << <<0, 0 - 52, 0, 0, 0, 1248>>,
                      <<1, 0 - 55, 4096, 13265, 9641, 1620>>,
                      <<1, 0 - 97, 5347, 4871, 7568, 1716>> >>
      [] i = 30 -> << <<0, 0 - 52, 0, 0, 0, 1240>>,
                      <<1, 0 - 55, 4096, 5251, 14854, 1567>>,
                      <<0, 0 - 97, 14857, 16239, 7159, 1775>> >>
      [] i = 31 -> << <<0, 0 - 52, 0, 0, 0, 1232>>,
                      <<1, 0 - 55, 8192, 2115, 14480, 1514>>,
                      <<0, 0 - 97, 2648, 2381, 14599, 1782>> >>
      [] i = 32 -> << <<0, 0 - 52, 0, 0, 0, 1232>>,
                      <<1, 0 - 55, 8192, 2115, 14480, 1514>>,
                      <<0, 0 - 97, 2648, 2381, 14599, 1782>> >>
      [] i = 33 -> << <<0, 0 - 52, 0, 0, 0, 1224>>,
                      <<1, 0 - 55, 4096, 7271, 8446, 1461>>,
                      <<1, 0 - 98, 8806, 3787, 1706, 1081>> >>
      [] i = 34 -> << <<0, 0 - 52, 0, 0, 0, 1216>>,
                      <<1, 0 - 55, 4096, 670, 13063, 1407>>,
                      <<1, 0 - 98, 4153, 15425, 9273, 1959>> >>
      [] i = 35 -> << <<0, 0 - 52, 0, 0, 0, 1216>>,
                      <<1, 0 - 55, 4096, 670, 13063, 1407>>,
                      <<1, 0 - 98, 4153, 15425, 9273, 1959>> >>
      [] i = 36 -> << <<0, 0 - 52, 0, 0, 0, 1208>>,
                      <<1, 0 - 55, 12288, 3718, 11870, 1353>>,
                      <<1, 0 - 97, 7055, 29, 10425, 1079>> >>
      [] i = 37 -> << <<0, 0 - 52, 0, 0, 0, 1200>>,
                      <<1, 0 - 55, 0, 13102, 4790, 1299>>,
                      <<0, 0 - 98, 14396, 1237, 3094, 1475>> >>
      [] i = 38 -> << <<0, 0 - 52, 0, 0, 0, 1200>>,
                      <<1, 0 - 55, 0, 13102, 4790, 1299>>,
                      <<0, 0 - 98, 14396, 1237, 3094, 1475>> >>
      [] i = 39 -> << <<0, 0 - 52, 0, 0, 0, 1192>>,
                      <<1, 0 - 55, 4096, 122, 8130, 1244>>,
                      <<0, 0 - 100, 5178, 13469, 2148, 1118>> >>
      [] i = 40 -> << <<0, 0 - 52, 0, 0, 0, 1184>>,
                      <<1, 0 - 55, 12288, 8319, 5423, 1189>>,
                      <<1, 0 - 97, 1032, 7623, 4865, 1315>> >>
      [] i = 41 -> << <<0, 0 - 52, 0, 0, 0, 1176>>,
                      <<1, 0 - 55, 8192, 5309, 12973, 1133>>,
                      <<1, 0 - 97, 9110, 8262, 2625, 1952>> >>
      [] i = 42 -> << <<0, 0 - 52, 0, 0, 0, 1176>>,
                      <<1, 0 - 55, 8192, 5309, 12973, 1133>>,
                      <<1, 0 - 97, 9110, 8262, 2625, 1952>> >>
      [] i = 43 -> << <<0, 0 - 52, 0, 0, 0, 1168>>,
                      <<1, 0 - 55, 4096, 13122, 14311, 1077>>,
                      <<0, 0 - 99, 7156, 9121, 6504, 1690>> >>
      [] i = 44 -> << <<0, 0 - 52, 0, 0, 0, 1168>>,
                      <<1, 0 - 55, 4096, 13122, 14311, 1077>>,
                      <<0, 0 - 99, 7156, 9121, 6504, 1690>> >>
      [] i = 45 -> << <<0, 0 - 52, 0, 0, 0, 1160>>,
                      <<1, 0 - 56, 8192, 1903, 2323, 2043>>,
                      <<1, 0 - 97, 13298, 12940, 5445, 1373>> >>
      [] i = 46 -> << <<0, 0 - 52, 0, 0, 0, 1152>>,
                      <<1, 0 - 56, 0, 14508, 12406, 1929>>,
                      <<0, 0 - 97, 60, 11200, 706, 1677>> >>
      [] i = 47 -> << <<0, 0 - 52, 0, 0, 0, 1152>>,
                      <<1, 0 - 56, 0, 14508, 12406, 1929>>,
                      <<0, 0 - 97, 60, 11200, 706, 1677>> >>
      [] i = 48 -> << <<0, 0 - 52, 0, 0, 0, 1144>>,
                      <<1, 0 - 56, 0, 15727, 9544, 1815>>,
                      <<1, 0 - 98, 15878, 8574, 1397, 1859>> >>
      [] i = 49 -> << <<0, 0 - 52, 0, 0, 0, 1136>>,
                      <<1, 0 - 56, 8192, 10539, 9939, 1700>>,
                      <<0, 0 - 97, 10952, 8558, 4958, 1358>> >>
      [] i = 50 -> << <<0, 0 - 52, 0, 0, 0, 1136>>,
                      <<1, 0 - 56, 8192, 10539, 9939, 1700>>,
                      <<0, 0 - 97, 10952, 8558, 4958, 1358>> >>
      [] i = 51 -> << <<0, 0 - 52, 0, 0, 0, 1128>>,
                      <<1, 0 - 56, 8192, 6342, 13405, 1584>>,
                      <<0, 0 - 98, 5736, 13501, 660, 1247>> >>
      [] i = 52 -> << <<0, 0 - 52, 0, 0, 0, 1128>>,
                      <<1, 0 - 56, 8192, 6342, 13405, 1584>>,
                      <<0, 0 - 98, 5736, 13501, 660, 1247>> >>
      [] i = 53 -> << <<0, 0 - 52, 0, 0, 0, 1120>>,
                      <<1, 0 - 56, 8192, 11157, 3368, 1468>>,
                      <<1, 0 - 97, 13274, 9421, 13180, 1445>> >>
      [] i = 54 -> << <<0, 0 - 52, 0, 0, 0, 1112>>,
                      <<1, 0 - 56, 8192, 15384, 12403, 1350>>,
                      <<0, 0 - 98, 7767, 1817, 9654, 1984>> >>
      [] i = 55 -> << <<0, 0 - 52, 0, 0, 0, 1112>>,
                      <<1, 0 - 56, 8192, 15384, 12403, 1350>>,
                      <<0, 0 - 98, 7767, 1817, 9654, 1984>> >>
      [] i = 56 -> << <<0, 0 - 52, 0, 0, 0, 1104>>,
                      <<1, 0 - 56, 8192, 6255, 7545, 1232>>,
                      <<0, 0 - 97, 5087, 13284, 11692, 1815>> >>
      [] i = 57 -> << <<0, 0 - 52, 0, 0, 0, 1104>>,
                      <<1, 0 - 56, 8192, 6255, 7545, 1232>>,
                      <<0, 0 - 97, 5087, 13284, 11692, 1815>> >>
      [] i = 58 -> << <<0, 0 - 52, 0, 0, 0, 1096>>,
                      <<1, 0 - 56, 0, 14990, 4974, 1113>>,
                      <<0, 0 - 98, 8969, 6718, 1511, 1311>> >>
      [] i = 59 -> << <<0, 0 - 52, 0, 0, 0, 1088>>,
                      <<1, 0 - 57, 0, 70, 8972, 1986>>,
                      <<0, 0 - 97, 3729, 3290, 6632, 1878>> >>
      [] i = 60 -> << <<0, 0 - 52, 0, 0, 0, 1088>>,
                      <<1, 0 - 57, 0, 70, 8972, 1986>>,
                      <<0, 0 - 97, 3729, 3290, 6632, 1878>> >>
      [] i = 61 -> << <<0, 0 - 52, 0, 0, 0, 1080>>,
                      <<1, 0 - 57, 0, 1126, 11735, 1744>>,
                      <<0, 0 - 98, 12364, 5977, 10158, 1824>> >>
      [] i = 62 -> << <<0, 0 - 52, 0, 0, 0, 1080>>,
                      <<1, 0 - 57, 0, 1126, 11735, 1744>>,
                      <<0, 0 - 98, 12364, 5977, 10158, 1824>> >>
      [] i = 63 -> << <<0, 0 - 52, 0, 0, 0, 1072>>,
                      <<1, 0 - 57, 0, 6347, 1423, 1501>>,
                      <<1, 0 - 97, 8686, 5066, 1123, 1855>> >>
      [] i = 64 -> << <<0, 0 - 52, 0, 0, 0, 1072>>,
                      <<1, 0 - 57, 0, 6347, 1423, 1501>>,
                      <<1, 0 - 97, 8686, 5066, 1123, 1855>> >>
      [] i = 65 -> << <<0, 0 - 52, 0, 0, 0, 1064>>,
                      <<1, 0 - 57, 0, 10235, 10363, 1255>>,
                      <<0, 0 - 100, 16042, 5275, 11135, 1344>> >>
      [] i = 66 -> << <<0, 0 - 52, 0, 0, 0, 1064>>,
                      <<1, 0 - 57, 0, 10235, 10363, 1255>>,
                      <<0, 0 - 100, 16042, 5275, 11135, 1344>> >>
      [] i = 67 -> << <<0, 0 - 52, 0, 0, 0, 1056>>,
                      <<1, 0 - 58, 0, 14816, 10672, 2016>>,
                      <<1, 0 - 97, 2532, 12792, 615, 1632>> >>
      [] i = 68 -> << <<0, 0 - 52, 0, 0, 0, 1056>>,
                      <<1, 0 - 58, 0, 14816, 10672, 2016>>,
                      <<1, 0 - 97, 2532, 12792, 615, 1632>> >>
      [] i = 69 -> << <<0, 0 - 52, 0, 0, 0, 1048>>,
                      <<1, 0 - 58, 0, 8022, 4528, 1518>>,
                      <<1, 0 - 97, 9785, 4074, 5449, 1571>> >>
      [] i = 70 -> << <<0, 0 - 52, 0, 0, 0, 1040>>,
                      <<1, 0 - 59, 0, 1008, 2699, 2032>>,
                      <<1, 0 - 102, 9884, 6990, 10191, 1991>> >>
      [] i = 71 -> << <<0, 0 - 52, 0, 0, 0, 1040>>,
                      <<1, 0 - 59, 0, 1008, 2699, 2032>>,
                      <<1, 0 - 102, 9884, 6990, 10191, 1991>> >>
      [] i = 72 -> << <<0, 0 - 52, 0, 0, 0, 1032>>,
                      <<1, 0 - 60, 0, 11328, 678, 2040>>,
                      <<1, 0 - 98, 228, 14185, 9200, 1656>> >>
      [] i = 73 -> << <<0, 0 - 52, 0, 0, 0, 1032>>,
                      <<1, 0 - 60, 0, 11328, 678, 2040>>,
                      <<1, 0 - 98, 228, 14185, 9200, 1656>> >>
      [] i = 74 -> << <<0, 0 - 52, 0, 0, 0, 1024>>,
                      <<0, 0, 0, 0, 0, 0>>,
                      <<0, 0, 0, 0, 0, 0>> >>
      [] i = 75 -> << <<0, 0 - 52, 0, 0, 0, 1024>>,
                      <<0, 0, 0, 0, 0, 0>>,
                      <<0, 0, 0, 0, 0, 0>> >>
      [] i = 76 -> << <<0, 0 - 53, 0, 0, 0, 2032>>,
                      <<0, 0 - 59, 0, 5668, 343, 1028>>,
                      <<1, 0 - 98, 11240, 9844, 14009, 1073>> >>
      [] i = 77 -> << <<0, 0 - 53, 0, 0, 0, 2016>>,
                      <<0, 0 - 58, 0, 8782, 1381, 1032>>,
                      <<1, 0 - 97, 14290, 7051, 1456, 1271>> >>
      [] i = 78 -> << <<0, 0 - 53, 0, 0, 0, 2000>>,
                      <<0, 0 - 58, 0, 8996, 4690, 1554>>,
                      <<1, 0 - 97, 3124, 2408, 2979, 1704>> >>
      [] i = 79 -> << <<0, 0 - 53, 0, 0, 0, 1984>>,
                      <<0, 0 - 57, 0, 10141, 5592, 1040>>,
                      <<0, 0 - 99, 5971, 13255, 7173, 1092>> >>
      [] i = 80 -> << <<0, 0 - 53, 0, 0, 0, 1968>>,
                      <<0, 0 - 57, 0, 4280, 10989, 1305>>,
                      <<1, 0 - 97, 15656, 5879, 10039, 1797>> >>
      [] i = 81 -> << <<0, 0 - 53, 0, 0, 0, 1952>>,
                      <<0, 0 - 57, 0, 4735, 2721, 1573>>,
                      <<1, 0 - 98, 9853, 360, 6493, 1630>> >>
      [] i = 82 -> << <<0, 0 - 53, 0, 0, 0, 1936>>,
                      <<0, 0 - 57, 0, 14199, 14140, 1842>>,
                      <<1, 0 - 98, 10247, 8032, 3876, 1690>> >>
      [] i = 83 -> << <<0, 0 - 53, 0, 0, 0, 1928>>,
                      <<0, 0 - 57, 0, 27, 8988, 1978>>,
                      <<1, 0 - 99, 15227, 16164, 5092, 1924>> >>
      [] i = 84 -> << <<0, 0 - 53, 0, 0, 0, 1912>>,
                      <<0, 0 - 56, 8192, 1305, 13245, 1125>>,
                      <<1, 0 - 97, 7835, 6198, 9685, 1356>> >>
      [] i = 85 -> << <<0, 0 - 53, 0, 0, 0, 1896>>,
                      <<0, 0 - 56, 8192, 8007, 8026, 1263>>,
                      <<0, 0 - 97, 3799, 5997, 1514, 1842>> >>
      [] i = 86 -> << <<0, 0 - 53, 0, 0, 0, 1880>>,
                      <<0, 0 - 56, 8192, 13918, 5540, 1402>>,
                      <<1, 0 - 97, 7454, 12660, 4195, 1818>> >>
      [] i = 87 -> << <<0, 0 - 53, 0, 0, 0, 1872>>,
                      <<0, 0 - 56, 0, 11179, 3376, 1472>>,
                      <<0, 0 - 101, 11570, 9847, 10458, 1799>> >>
      [] i = 88 -> << <<0, 0 - 53, 0, 0, 0, 1856>>,
                      <<0, 0 - 56, 0, 13669, 13797, 1612>>,
                      <<0, 0 - 97, 2010, 10997, 5571, 1220>> >>
      [] i = 89 -> << <<0, 0 - 53, 0, 0, 0, 1840>>,
                      <<0, 0 - 56, 8192, 14005, 11400, 1754>>,
                      <<1, 0 - 98, 10469, 12253, 2050, 1252>> >>
      [] i = 90 -> << <<0, 0 - 53, 0, 0, 0, 1832>>,
                      <<0, 0 - 56, 0, 1777, 1408, 1826>>,
                      <<0, 0 - 97, 11475, 6506, 11548, 1425>> >>
      [] i = 91 -> << <<0, 0 - 53, 0, 0, 0, 1816>>,
                      <<0, 0 - 56, 8192, 3112, 13208, 1969>>,
                      <<1, 0 - 97, 1504, 16281, 1674, 1904>> >>
      [] i = 92 -> << <<0, 0 - 53, 0, 0, 0, 1808>>,
                      <<0, 0 - 56, 8192, 10095, 2323, 2042>>,
                      <<1, 0 - 97, 2813, 16004, 3428, 1357>> >>
      [] i = 93 -> << <<0, 0 - 53, 0, 0, 0, 1792>>,
                      <<0, 0 - 55, 8192, 2207, 14568, 1093>>,
                      <<0, 0 - 97, 2034, 14516, 14220, 1147>> >>
      [] i = 94 -> << <<0, 0 - 53, 0, 0, 0, 1784>>,
                      <<0, 0 - 55, 12288, 14479, 8887, 1130>>,
                      <<0, 0 - 97, 6452, 4322, 14564, 1833>> >>
      [] i = 95 -> << <<0, 0 - 53, 0, 0, 0, 1768>>,
                      <<0, 0 - 55, 0, 12826, 5648, 1204>>,
                      <<0, 0 - 99, 13473, 11782, 5836, 1255>> >>
      [] i = 96 -> << <<0, 0 - 53, 0, 0, 0, 1760>>,
                      <<0, 0 - 55, 4096, 86, 8139, 1241>>,
                      <<0, 0 - 103, 12937, 3373, 14978, 1419>> >>
      [] i = 97 -> << <<0, 0 - 53, 0, 0, 0, 1744>>,
                      <<0, 0 - 55, 12288, 3278, 5080, 1316>>,
                      <<0, 0 - 97, 13944, 5110, 14229, 1376>> >>
      [] i = 98 -> << <<0, 0 - 53, 0, 0, 0, 1736>>,
                      <<0, 0 - 55, 12288, 4742, 15966, 1353>>,
                      <<0, 0 - 97, 15815, 5541, 16014, 1420>> >>
      [] i = 99 -> << <<0, 0 - 53, 0, 0, 0, 1720>>,
                      <<0, 0 - 55, 4096, 14896, 13547, 1429>>,
                      <<0, 0 - 98, 11896, 12528, 14514, 1651>> >>
      [] i = 100 -> << <<0, 0 - 53, 0, 0, 0, 1712>>,
                      <<0, 0 - 55, 12288, 11733, 296, 1468>>,
                      <<1, 0 - 97, 8673, 5744, 6366, 1348>> >>
      [] i = 101 -> << <<0, 0 - 53, 0, 0, 0, 1704>>,
                      <<0, 0 - 55, 4096, 5393, 6360, 1506>>,
                      <<1, 0 - 98, 773, 581, 8455, 1817>> >>
      [] i = 102 -> << <<0, 0 - 53, 0, 0, 0, 1688>>,
                      <<0, 0 - 55, 0, 11492, 11006, 1583>>,
                      <<1, 0 - 99, 11473, 11172, 5450, 1487>> >>
      [] i = 103 -> << <<0, 0 - 53, 0, 0, 0, 1680>>,
                      <<0, 0 - 55, 0, 13276, 9645, 1622>>,
                      <<0, 0 - 99, 16239, 8835, 8837, 1532>> >>
      [] i = 104 -> << <<0, 0 - 53, 0, 0, 0, 1664>>,
                      <<0, 0 - 55, 8192, 12843, 16083, 1700>>,
                      <<1, 0 - 97, 8553, 344, 9269, 1564>> >>
      [] i = 105 -> << <<0, 0 - 53, 0, 0, 0, 1656>>,
                      <<0, 0 - 55, 4096, 7535, 7557, 1740>>,
                      <<1, 0 - 99, 8618, 15027, 6356, 1805>> >>
      [] i = 106 -> << <<0, 0 - 53, 0, 0, 0, 1648>>,
                      <<0, 0 - 55, 8192, 8431, 2163, 1780>>,
                      <<1, 0 - 97, 4790, 9552, 15429, 1874>> >>
      [] i = 107 -> << <<0, 0 - 53, 0, 0, 0, 1640>>,
                      <<0, 0 - 55, 4096, 7104, 16316, 1819>>,
                      <<1, 0 - 100, 11218, 5720, 1836, 1147>> >>
      [] i = 108 -> << <<0, 0 - 53, 0, 0, 0, 1624>>,
                      <<0, 0 - 55, 4096, 850, 5083, 1900>>,
                      <<1, 0 - 97, 12341, 7254, 12975, 1727>> >>
      [] i = 109 -> << <<0, 0 - 53, 0, 0, 0, 1616>>,
                      <<0, 0 - 55, 4096, 16284, 12527, 1940>>,
                      <<0, 0 - 103, 13360, 263, 8822, 1156>> >>
      [] i = 110 -> << <<0, 0 - 53, 0, 0, 0, 1608>>,
                      <<0, 0 - 55, 0, 4980, 6878, 1981>>,
                      <<1, 0 - 103, 3601, 5870, 4438, 1672>> >>
      [] i = 111 -> << <<0, 0 - 53, 0, 0, 0, 1600>>,
                      <<0, 0 - 55, 12288, 13006, 4550, 2022>>,
                      <<0, 0 - 98, 7984, 10291, 16076, 1778>> >>
      [] i = 112 -> << <<0, 0 - 53, 0, 0, 0, 1584>>,
                      <<0, 0 - 54, 6144, 309, 4998, 1052>>,
                      <<0, 0 - 100, 3729, 7093, 3505, 1575>> >>
      [] i = 113 -> << <<0, 0 - 53, 0, 0, 0, 1576>>,
                      <<0, 0 - 54, 8192, 7557, 726, 1073>>,
                      <<0, 0 - 97, 10985, 6387, 2225, 1478>> >>
      [] i = 114 -> << <<0, 0 - 53, 0, 0, 0, 1568>>,
                      <<0, 0 - 54, 10240, 2207, 14568, 1093>>,
                      <<1, 0 - 97, 12316, 3735, 4326, 1800>> >>
      [] i = 115 -> << <<0, 0 - 53, 0, 0, 0, 1560>>,
                      <<0, 0 - 54, 14336, 11955, 13772, 1114>>,
                      <<0, 0 - 97, 5761, 7828, 11487, 1766>> >>
      [] i = 116 -> << <<0, 0 - 53, 0, 0, 0, 1552>>,
                      <<0, 0 - 54, 10240, 3433, 14742, 1135>>,
                      <<0, 0 - 97, 15799, 1310, 11989, 1833>> >>
      [] i = 117 -> << <<0, 0 - 53, 0, 0, 0, 1544>>,
                      <<0, 0 - 54, 14336, 13370, 1110, 1157>>,
                      <<0, 0 - 99, 15082, 10522, 15851, 1697>> >>
      [] i = 118 -> << <<0, 0 - 53, 0, 0, 0, 1528>>,
                      <<0, 0 - 54, 4096, 13170, 12039, 1199>>,
                      <<0, 0 - 97, 1268, 10560, 4004, 1703>> >>
      [] i = 119 -> << <<0, 0 - 53, 0, 0, 0, 1520>>,
                      <<0, 0 - 54, 8192, 1869, 3870, 1221>>,
                      <<1, 0 - 97, 15544, 3204, 10157, 1592>> >>
      [] i = 120 -> << <<0, 0 - 53, 0, 0, 0, 1512>>,
                      <<0, 0 - 54, 4096, 6904, 13943, 1242>>,
                      <<0, 0 - 98, 14280, 965, 11483, 1115>> >>
      [] i = 121 -> << <<0, 0 - 53, 0, 0, 0, 1504>>,
                      <<0, 0 - 54, 12288, 7372, 9511, 1264>>,
                      <<0, 0 - 98, 15708, 6170, 13643, 1550>> >>
      [] i = 122 -> << <<0, 0 - 53, 0, 0, 0, 1496>>,
                      <<0, 0 - 54, 10240, 3927, 6978, 1286>>,
                      <<0, 0 - 99, 8349, 12867, 878, 1593>> >>
      [] i = 123 -> << <<0, 0 - 53, 0, 0, 0, 1488>>,
                      <<0, 0 - 54, 2048, 2503, 6364, 1308>>,
                      <<1, 0 - 97, 5749, 9631, 15584, 1993>> >>
      [] i = 124 -> << <<0, 0 - 53, 0, 0, 0, 1480>>,
                      <<0, 0 - 54, 12288, 14428, 7689, 1330>>,
                      <<1, 0 - 97, 6308, 11307, 2193, 1928>> >>
      [] i = 125 -> << <<0, 0 - 53, 0, 0, 0, 1472>>,
                      <<0, 0 - 54, 8192, 7394, 10976, 1352>>,
                      <<0, 0 - 97, 1881, 1427, 9992, 1967>> >>
      [] i = 126 -> << <<0, 0 - 53, 0, 0, 0, 1464>>,
                      <<0, 0 - 54, 4096, 3875, 16245, 1374>>,
                      <<0, 0 - 98, 239, 14709, 7902, 2027>> >>
      [] i = 127 -> << <<0, 0 - 53, 0, 0, 0, 1456>>,
                      <<0, 0 - 54, 8192, 15717, 7133, 1397>>,
                      <<1, 0 - 99, 9692, 8849, 12960, 1666>> >>

\* the top 20 bits of the fraction of the mantissa of x
FracTop(x) == (x[6] - 2^10) * 2^10 + x[5] \div 2^4

\* OFF of log_inline: z = x / 2^k is taken in [OFF, 2 * OFF), the top 20 bits
\* of the fraction of OFF are 0x69555
LogOff == 6 * 16^4 + 9 * 16^3 + 5 * 16^2 + 5 * 16 + 5

\* y = hi + lo and the tail hi - y + lo of the logarithm
pow_log_tail(hi, lo, y) == <<y, FAdd(FSub(hi, y), lo)>>

pow_log_sum(hi, lo) == pow_log_tail(hi, lo, FAdd(hi, lo))

\* lo = lo1 + lo2 + lo3 + lo4 + ar3 * p
pow_log_lo(hi, lo1, lo2, lo3, lo4, ar3, p) ==
    pow_log_sum(hi, FFma(ar3, p, FAdd(FAdd(FAdd(lo1, lo2), lo3), lo4)))

\* A[1] + r * A[2] + ar2 * (A[3] + r * A[4] + ar2 * (A[5] + r * A[6]))
pow_log_poly(r, ar2) ==
    FFma(ar2, FFma(FFma(r, LogA6, LogA5), ar2, FFma(r, LogA4, LogA3)), FFma(r, LogA2, LogA1))

pow_log_hi(r, t1, t2, lo1, ar, ar2, hi) ==
    pow_log_lo(hi, lo1, FAdd(FSub(t1, t2), r), FFma(ar, r, FNeg(ar2)),
               FAdd(FSub(t2, hi), ar2), FMul(r, ar2), pow_log_poly(r, ar2))

pow_log_ar2(r, t1, t2, lo1, ar, ar2) == pow_log_hi(r, t1, t2, lo1, ar, ar2, FAdd(t2, ar2))

pow_log_ar(r, t1, lo1, ar) == pow_log_ar2(r, t1, FAdd(r, t1), lo1, ar, FMul(r, ar))

\* r = z * invc - 1, t1 = kd * Ln2hi + logc, lo1 = kd * Ln2lo + logctail
pow_log_r(r, t1, lo1) == pow_log_ar(r, t1, lo1, FMul(r, LogA0))

pow_log_z(z, kd, T) ==
    pow_log_r(FFma(z, T[1], FInt(0 - 1)), FFma(kd, Ln2hi, T[2]), FFma(kd, Ln2lo, T[3]))

\* log_inline: <<hi, lo>> with hi + lo the logarithm of a float x > 0
log_inline(x) ==
    IF FracTop(x) >= LogOff
    THEN pow_log_z(<<0, 0 - 53, x[3], x[4], x[5], x[6]>>, FInt(x[2] + 53),
                   pow_log_tab((FracTop(x) - LogOff) \div 2^13))
    ELSE pow_log_z(<<0, 0 - 52, x[3], x[4], x[5], x[6]>>, FInt(x[2] + 52),
                   pow_log_tab((FracTop(x) - LogOff + 2^20) \div 2^13))

InvLn2N == <<0, 0 - 45, 766, 5294, 5238, 1477>>
Shift == <<0, 0, 0, 0, 0, 1536>>
NegLn2hiN == <<1, 0 - 60, 0, 15336, 9263, 1419>>
NegLn2loN == <<1, 0 - 99, 15162, 12920, 14763, 1853>>
ExpC2 == <<0, 0 - 54, 15805, 16383, 16383, 2047>>
ExpC3 == <<0, 0 - 55, 5180, 5461, 5461, 1365>>
ExpC4 == <<0, 0 - 57, 11153, 15452, 5468, 1365>>
ExpC5 == <<0, 0 - 59, 4119, 7827, 4374, 1092>>

\* T[2i] and T[2i + 1] of the exponential: the tail of 2^(i/128) and 2^(i/128) itself
exp_tab(i) ==
    CASE i = 0 -> << <<0, 0, 0, 0, 0, 0>>,
                      <<0, 0 - 52, 0, 0, 0, 1024>> >>
      [] i = 1 -> << <<0, 0 - 106, 16238, 10786, 13553, 1742>>,
                      <<0, 0 - 52, 13109, 10220, 9178, 1029>> >>
      [] i = 2 -> << <<1, 0 - 108, 7261, 13155, 313, 1112>>,
                      <<0, 0 - 52, 97, 14814, 2467, 1035>> >>
      [] i = 3 -> << <<1, 0 - 106, 9937, 541, 10145, 1047>>,
                      <<0, 0 - 52, 16261, 8633, 12638, 1040>> >>
      [] i = 4 -> << <<0, 0 - 107, 13843, 5535, 9507, 1844>>,
                      <<0, 0 - 52, 1396, 3158, 6925, 1046>> >>
      [] i = 5 -> << <<1, 0 - 107, 3834, 4070, 10242, 1779>>,
                      <<0, 0 - 52, 14046, 10103, 1714, 1052>> >>
      [] i = 6 -> << <<0, 0 - 109, 2145, 1947, 13542, 1085>>,
                      <<0, 0 - 52, 7112, 8662, 13393, 1057>> >>
      [] i = 7 -> << <<0, 0 - 106, 5017, 11471, 15941, 1064>>,
                      <<0, 0 - 52, 13187, 11035, 9196, 1063>> >>
      [] i = 8 -> << <<0, 0 - 106, 15213, 13837, 10853, 1510>>,
                      <<0, 0 - 52, 2319, 13286, 5510, 1069>> >>
      [] i = 9 -> << <<0, 0 - 107, 12284, 3063, 4521, 1965>>,
                      <<0, 0 - 52, 2039, 11721, 2338, 1075>> >>
      [] i = 10 -> << <<0, 0 - 112, 7377, 190, 9175, 1967>>,
                      <<0, 0 - 52, 4514, 2895, 16067, 1080>> >>
      [] i = 11 -> << <<1, 0 - 109, 11787, 9793, 13128, 1664>>,
                      <<0, 0 - 52, 4891, 16379, 13930, 1086>> >>
      [] i = 12 -> << <<1, 0 - 106, 15630, 10430, 9506, 1365>>,
                      <<0, 0 - 52, 6993, 73, 12317, 1092>> >>
      [] i = 13 -> << <<1, 0 - 110, 10837, 12603, 3832, 1056>>,
                      <<0, 0 - 52, 12748, 432, 11228, 1098>> >>
      [] i = 14 -> << <<1, 0 - 106, 13334, 10071, 4667, 1138>>,
                      <<0, 0 - 52, 11744, 15012, 10666, 1104>> >>
      [] i = 15 -> << <<0, 0 - 107, 5551, 9585, 15934, 1076>>,
                      <<0, 0 - 52, 3665, 8854, 10636, 1110>> >>
      [] i = 16 -> << <<1, 0 - 107, 4936, 10902, 12638, 1030>>,
                      <<0, 0 - 52, 4475, 12789, 11139, 1116>> >>
      [] i = 17 -> << <<1, 0 - 107, 12861, 6008, 16133, 1991>>,
                      <<0, 0 - 52, 3562, 8754, 12179, 1122>> >>
      [] i = 18 -> << <<0, 0 - 107, 5055, 15437, 6339, 1762>>,
                      <<0, 0 - 52, 2933, 11711, 13758, 1128>> >>
      [] i = 19 -> << <<1, 0 - 106, 11046, 6215, 6599, 1462>>,
                      <<0, 0 - 52, 7380, 4113, 15880, 1134>> >>
      [] i = 20 -> << <<0, 0 - 106, 12128, 14568, 3955, 1723>>,
                      <<0, 0 - 52, 14762, 1442, 2163, 1141>> >>
      [] i = 21 -> << <<1, 0 - 107, 14493, 11800, 14380, 2041>>,
                      <<0, 0 - 52, 6429, 3059, 5378, 1147>> >>
      [] i = 22 -> << <<0, 0 - 107, 909, 4763, 13332, 1691>>,
                      <<0, 0 - 52, 3286, 8586, 9144, 1153>> >>
      [] i = 23 -> << <<0, 0 - 107, 1149, 912, 8283, 1054>>,
                      <<0, 0 - 52, 7318, 1527, 13465, 1159>> >>
      [] i = 24 -> << <<0, 0 - 106, 10388, 3746, 12254, 1443>>,
                      <<0, 0 - 52, 8760, 14805, 1958, 1166>> >>
      [] i = 25 -> << <<0, 0 - 107, 2173, 2513, 8591, 1495>>,
                      <<0, 0 - 52, 9791, 16074, 7396, 1172>> >>
      [] i = 26 -> << <<0, 0 - 107, 10226, 8319, 12985, 1041>>,
                      <<0, 0 - 52, 15581, 6025, 13398, 1178>> >>
      [] i = 27 -> << <<1, 0 - 106, 2142, 15812, 1971, 1454>>,
                      <<0, 0 - 52, 9089, 2005, 3582, 1185>> >>
      [] i = 28 -> << <<0, 0 - 107, 11057, 13350, 15894, 1213>>,
                      <<0, 0 - 52, 7905, 5247, 10719, 1191>> >>
      [] i = 29 -> << <<1, 0 - 112, 16378, 10686, 6577, 1864>>,
                      <<0, 0 - 52, 6544, 875, 2045, 1198>> >>
      [] i = 30 -> << <<0, 0 - 107, 2740, 2096, 14375, 1741>>,
                      <<0, 0 - 52, 779, 7056, 10330, 1204>> >>
      [] i = 31 -> << <<0, 0 - 109, 2959, 10043, 2344, 1925>>,
                      <<0, 0 - 52, 12118, 9464, 2810, 1211>> >>
      [] i = 32 -> << <<0, 0 - 107, 11190, 14018, 5972, 1235>>,
                      <<0, 0 - 52, 14101, 10438, 12256, 1217>> >>
      [] i = 33 -> << <<0, 0 - 107, 13388, 2737, 8222, 1424>>,
                      <<0, 0 - 52, 6193, 12595, 5903, 1224>> >>
      [] i = 34 -> << <<0, 0 - 107, 14410, 14159, 5013, 2039>>,
                      <<0, 0 - 52, 5887, 2448, 139, 1231>> >>
      [] i = 35 -> << <<1, 0 - 107, 6916, 11833, 14339, 1448>>,
                      <<0, 0 - 52, 8177, 15946, 11349, 1237>> >>
      [] i = 36 -> << <<1, 0 - 106, 4200, 12589, 11996, 1170>>,
                      <<0, 0 - 52, 10699, 7402, 6771, 1244>> >>
      [] i = 37 -> << <<1, 0 - 106, 11662, 11588, 16257, 1601>>,
                      <<0, 0 - 52, 6246, 13335, 2790, 1251>> >>
      [] i = 38 -> << <<1, 0 - 108, 14034, 14928, 7811, 1140>>,
                      <<0, 0 - 52, 8183, 5014, 15795, 1257>> >>
      [] i = 39 -> << <<1, 0 - 106, 6933, 3896, 4507, 1606>>,
                      <<0, 0 - 52, 10469, 3150, 13020, 1264>> >>
      [] i = 40 -> << <<0, 0 - 107, 3181, 7337, 13450, 1383>>,
                      <<0, 0 - 52, 13346, 12360, 10852, 1271>> >>
      [] i = 41 -> << <<1, 0 - 106, 10634, 10401, 9735, 1220>>,
                      <<0, 0 - 52, 28, 4786, 9296, 1278>> >>
      [] i = 42 -> << <<1, 0 - 110, 2395, 8286, 14580, 1577>>,
                      <<0, 0 - 52, 11818, 2012, 8354, 1285>> >>
      [] i = 43 -> << <<1, 0 - 108, 6683, 7462, 2486, 1803>>,
                      <<0, 0 - 52, 10391, 9538, 8029, 1292>> >>
      [] i = 44 -> << <<0, 0 - 111, 11281, 778, 16086, 1240>>,
                      <<0, 0 - 52, 2349, 390, 8326, 1299>> >>
      [] i = 45 -> << <<0, 0 - 106, 9455, 11289, 8339, 1433>>,
                      <<0, 0 - 52, 87, 13428, 9246, 1306>> >>
      [] i = 46 -> << <<0, 0 - 109, 889, 10884, 3613, 1971>>,
                      <<0, 0 - 52, 15568, 5892, 10795, 1313>> >>
      [] i = 47 -> << <<0, 0 - 106, 4656, 15420, 14563, 1279>>,
                      <<0, 0 - 52, 5086, 863, 12975, 1320>> >>
      [] i = 48 -> << <<0, 0 - 108, 12208, 11754, 3307, 1444>>,
                      <<0, 0 - 52, 10791, 5336, 15789, 1327>> >>
      [] i = 49 -> << <<0, 0 - 106, 8311, 11603, 7134, 1223>>,
                      <<0, 0 - 52, 7437, 10231, 2857, 1335>> >>
      [] i = 50 -> << <<1, 0 - 107, 9102, 454, 832, 2021>>,
                      <<0, 0 - 52, 11431, 6772, 6951, 1342>> >>
      [] i = 51 -> << <<1, 0 - 107, 9033, 12878, 11469, 1527>>,
                      <<0, 0 - 52, 9794, 2877, 11690, 1349>> >>
      [] i = 52 -> << <<1, 0 - 108, 14431, 13372, 11371, 1591>>,
                      <<0, 0 - 52, 3970, 6773, 693, 1357>> >>
      [] i = 53 -> << <<1, 0 - 107, 7414, 12781, 9326, 1412>>,
                      <<0, 0 - 52, 4623, 10614, 6732, 1364>> >>
      [] i = 54 -> << <<0, 0 - 106, 6030, 9207, 4177, 1229>>,
                      <<0, 0 - 52, 10202, 6868, 13427, 1371>> >>
      [] i = 55 -> << <<0, 0 - 108, 6917, 15914, 2930, 1766>>,
                      <<0, 0 - 52, 2045, 4703, 4397, 1379>> >>
      [] i = 56 -> << <<0, 0 - 106, 5129, 2161, 15902, 1048>>,
                      <<0, 0 - 52, 5161, 13601, 12413, 1386>> >>
      [] i = 57 -> << <<0, 0 - 112, 1770, 103, 14421, 1329>>,
                      <<0, 0 - 52, 1719, 10597, 4712, 1394>> >>
      [] i = 58 -> << <<0, 0 - 106, 53, 11667, 11874, 1292>>,
                      <<0, 0 - 52, 8520, 5812, 14065, 1401>> >>
      [] i = 59 -> << <<1, 0 - 107, 13983, 1637, 1190, 1849>>,
                      <<0, 0 - 52, 7177, 9691, 7707, 1409>> >>
      [] i = 60 -> << <<1, 0 - 107, 3496, 12221, 15443, 1804>>,
                      <<0, 0 - 52, 5509, 233, 2027, 1417>> >>
      [] i = 61 -> << <<1, 0 - 107, 10670, 9391, 14216, 1300>>,
                      <<0, 0 - 52, 800, 4915, 13411, 1424>> >>
      [] i = 62 -> << <<1, 0 - 106, 6232, 8537, 11735, 1267>>,
                      <<0, 0 - 52, 8741, 2388, 9096, 1432>> >>
      [] i = 63 -> << <<0, 0 - 110, 6500, 504, 2728, 1476>>,
                      <<0, 0 - 52, 10611, 4402, 5469, 1440>> >>
      [] i = 64 -> << <<1, 0 - 106, 8744, 15736, 16123, 1260>>,
                      <<0, 0 - 52, 15309, 6652, 2534, 1448>> >>
      [] i = 65 -> << <<1, 0 - 109, 14722, 7378, 10968, 1668>>,
                      <<0, 0 - 52, 6847, 5167, 295, 1456>> >>
      [] i = 66 -> << <<1, 0 - 109, 10734, 8630, 16123, 1241>>,
                      <<0, 0 - 52, 6703, 12692, 15139, 1463>> >>
      [] i = 67 -> << <<1, 0 - 107, 2129, 4994, 981, 1079>>,
                      <<0, 0 - 52, 5252, 9542, 14303, 1471>> >>
      [] i = 68 -> << <<1, 0 - 108, 16079, 14696, 13895, 1543>>,
                      <<0, 0 - 52, 8052, 9137, 14174, 1479>> >>
      [] i = 69 -> << <<1, 0 - 107, 15792, 557, 9388, 1467>>,
                      <<0, 0 - 52, 372, 8854, 14756, 1487>> >>
      [] i = 70 -> << <<1, 0 - 107, 9866, 14679, 4897, 1414>>,
                      <<0, 0 - 52, 10185, 6409, 16053, 1495>> >>
      [] i = 71 -> << <<0, 0 - 106, 5331, 14375, 3253, 1063>>,
                      <<0, 0 - 52, 7487, 16249, 1684, 1504>> >>
      [] i = 72 -> << <<1, 0 - 108, 9501, 9526, 11723, 1740>>,
                      <<0, 0 - 52, 391, 4012, 4423, 1512>> >>
      [] i = 73 -> << <<0, 0 - 106, 107, 4511, 4053, 1339>>,
                      <<0, 0 - 52, 306, 1219, 7888, 1520>> >>
      [] i = 74 -> << <<0, 0 - 109, 11349, 12121, 15898, 1402>>,
                      <<0, 0 - 52, 3682, 6973, 12083, 1528>> >>
      [] i = 75 -> << <<1, 0 - 107, 3906, 16079, 7250, 1576>>,
                      <<0, 0 - 52, 6674, 4344, 629, 1537>> >>
      [] i = 76 -> << <<1, 0 - 106, 14132, 1260, 7023, 1242>>,
                      <<0, 0 - 52, 3603, 9523, 6297, 1545>> >>
      [] i = 77 -> << <<1, 0 - 107, 16158, 10343, 10307, 1047>>,
                      <<0, 0 - 52, 1965, 6287, 12708, 1553>> >>
      [] i = 78 -> << <<1, 0 - 106, 5998, 8649, 1293, 1333>>,
                      <<0, 0 - 52, 4845, 11538, 3481, 1562>> >>
      [] i = 79 -> << <<0, 0 - 106, 2560, 11322, 5749, 1067>>,
                      <<0, 0 - 52, 9881, 9769, 11389, 1570>> >>
      [] i = 80 -> << <<0, 0 - 107, 10932, 1987, 13052, 1901>>,
                      <<0, 0 - 52, 8411, 2218, 3668, 1579>> >>
      [] i = 81 -> << <<1, 0 - 109, 10239, 13079, 9737, 1389>>,
                      <<0, 0 - 52, 1164, 6869, 13089, 1587>> >>
      [] i = 82 -> << <<0, 0 - 108, 8004, 10189, 10293, 1789>>,
                      <<0, 0 - 52, 14134, 9301, 6889, 1596>> >>
      [] i = 83 -> << <<1, 0 - 106, 15747, 7288, 4602, 1218>>,
                      <<0, 0 - 52, 16326, 11847, 1456, 1605>> >>
      [] i = 84 -> << <<1, 0 - 110, 7721, 11696, 7048, 1898>>,
                      <<0, 0 - 52, 1509, 823, 13179, 1613>> >>
      [] i = 85 -> << <<1, 0 - 109, 14681, 12866, 16279, 1800>>,
                      <<0, 0 - 52, 4623, 12065, 9292, 1622>> >>
      [] i = 86 -> << <<1, 0 - 106, 14762, 3027, 13362, 1168>>,
                      <<0, 0 - 52, 3664, 16249, 6185, 1631>> >>
      [] i = 87 -> << <<1, 0 - 107, 3659, 7578, 9933, 1394>>,
                      <<0, 0 - 52, 1978, 808, 3863, 1640>> >>
      [] i = 88 -> << <<0, 0 - 108, 3623, 11847, 16322, 1131>>,
                      <<0, 0 - 52, 12432, 2703, 2328, 1649>> >>
      [] i = 89 -> << <<0, 0 - 109, 13243, 1065, 9054, 1908>>,
                      <<0, 0 - 52, 8995, 10124, 1585, 1658>> >>
      [] i = 90 -> << <<1, 0 - 107, 8803, 2440, 4162, 1521>>,
                      <<0, 0 - 52, 9573, 11639, 1639, 1667>> >>
      [] i = 91 -> << <<0, 0 - 107, 12757, 3976, 2158, 1735>>,
                      <<0, 0 - 52, 11571, 12584, 2494, 1676>> >>
      [] i = 92 -> << <<1, 0 - 106, 15125, 3826, 15645, 1134>>,
                      <<0, 0 - 52, 9565, 2296, 4155, 1685>> >>
      [] i = 93 -> << <<0, 0 - 106, 12754, 13240, 793, 1075>>,
                      <<0, 0 - 52, 13144, 3266, 6625, 1694>> >>
      [] i = 94 -> << <<0, 0 - 107, 6835, 14797, 6214, 1306>>,
                      <<0, 0 - 52, 15807, 5607, 9909, 1703>> >>
      [] i = 95 -> << <<1, 0 - 107, 7604, 7738, 15577, 1207>>,
                      <<0, 0 - 52, 13178, 16207, 14011, 1712>> >>
      [] i = 96 -> << <<0, 0 - 107, 13191, 2860, 10105, 1798>>,
                      <<0, 0 - 52, 5037, 9579, 2553, 1722>> >>
      [] i = 97 -> << <<1, 0 - 106, 6650, 11079, 14580, 1054>>,
                      <<0, 0 - 52, 13926, 9782, 8306, 1731>> >>
      [] i = 98 -> << <<1, 0 - 110, 11962, 7026, 15765, 1392>>,
                      <<0, 0 - 52, 5627, 8508, 14891, 1740>> >>
      [] i = 99 -> << <<1, 0 - 106, 13888, 13979, 227, 1065>>,
                      <<0, 0 - 52, 6458, 14229, 5928, 1750>> >>
      [] i = 100 -> << <<1, 0 - 109, 4916, 8886, 12099, 1589>>,
                      <<0, 0 - 52, 7751, 3053, 14191, 1759>> >>
      [] i = 101 -> << <<1, 0 - 106, 2613, 11618, 11814, 1147>>,
                      <<0, 0 - 52, 1610, 644, 6915, 1769>> >>
      [] i = 102 -> << <<0, 0 - 108, 7629, 10623, 15728, 1343>>,
                      <<0, 0 - 52, 466, 303, 489, 1779>> >>
      [] i = 103 -> << <<1, 0 - 106, 6316, 10826, 8127, 1135>>,
                      <<0, 0 - 52, 7689, 12124, 11301, 1788>> >>
      [] i = 104 -> << <<0, 0 - 108, 3251, 700, 10979, 1243>>,
                      <<0, 0 - 52, 4764, 13845, 6589, 1798>> >>
      [] i = 105 -> << <<0, 0 - 107, 15764, 12927, 13093, 1976>>,
                      <<0, 0 - 52, 4218, 16383, 2741, 1808>> >>
      [] i = 106 -> << <<0, 0 - 107, 6572, 1061, 2301, 1336>>,
                      <<0, 0 - 52, 4427, 14687, 16146, 1817>> >>
      [] i = 107 -> << <<0, 0 - 109, 6759, 8504, 6899, 1267>>,
                      <<0, 0 - 52, 10165, 4123, 14041, 1827>> >>
      [] i = 108 -> << <<0, 0 - 109, 6504, 12872, 12998, 1498>>,
                      <<0, 0 - 52, 4201, 13246, 12813, 1837>> >>
      [] i = 109 -> << <<1, 0 - 107, 13778, 3890, 8584, 1058>>,
                      <<0, 0 - 52, 1018, 5495, 12469, 1847>> >>
      [] i = 110 -> << <<1, 0 - 107, 14959, 16383, 5587, 2027>>,
                      <<0, 0 - 52, 2428, 10270, 13012, 1857>> >>
      [] i = 111 -> << <<1, 0 - 106, 10569, 8662, 6883, 1027>>,
                      <<0, 0 - 52, 2546, 8246, 14448, 1867>> >>
      [] i = 112 -> << <<0, 0 - 108, 1959, 6388, 14426, 1320>>,
                      <<0, 0 - 52, 9351, 13294, 397, 1878>> >>
      [] i = 113 -> << <<1, 0 - 107, 8719, 256, 6626, 1188>>,
                      <<0, 0 - 52, 920, 6950, 3633, 1888>> >>
      [] i = 114 -> << <<0, 0 - 107, 4780, 5894, 9485, 1942>>,
                      <<0, 0 - 52, 12933, 3948, 7776, 1898>> >>
      [] i = 115 -> << <<0, 0 - 107, 11083, 12293, 9626, 1294>>,
                      <<0, 0 - 52, 13408, 3078, 12831, 1908>> >>
      [] i = 116 -> << <<1, 0 - 107, 15903, 7888, 4624, 1205>>,
                      <<0, 0 - 52, 7007, 3566, 2419, 1919>> >>
      [] i = 117 -> << <<1, 0 - 107, 3529, 11548, 11155, 1610>>,
                      <<0, 0 - 52, 8489, 5078, 9313, 1929>> >>
      [] i = 118 -> << <<0, 0 - 108, 2259, 234, 8262, 1325>>,
                      <<0, 0 - 52, 16374, 7724, 750, 1940>> >>
      [] i = 119 -> << <<0, 0 - 107, 12913, 1653, 7877, 1265>>,
                      <<0, 0 - 52, 3203, 12061, 9503, 1950>> >>
      [] i = 120 -> << <<1, 0 - 107, 4592, 16206, 12584, 2045>>,
                      <<0, 0 - 52, 4314, 2706, 2810, 1961>> >>
      [] i = 121 -> << <<1, 0 - 107, 13437, 2189, 10638, 1899>>,
                      <<0, 0 - 52, 10225, 13881, 13442, 1971>> >>
      [] i = 122 -> << <<0, 0 - 107, 8200, 1704, 15300, 1968>>,
                      <<0, 0 - 52, 6695, 14725, 8638, 1982>> >>
      [] i = 123 -> << <<0, 0 - 107, 11058, 3751, 14668, 1290>>,
                      <<0, 0 - 52, 14999, 7598, 4787, 1993>> >>
      [] i = 124 -> << <<0, 0 - 107, 1518, 1862, 2707, 1689>>,
                      <<0, 0 - 52, 1344, 11705, 1893, 2004>> >>
      [] i = 125 -> << <<1, 0 - 107, 9197, 4335, 15278, 1933>>,
                      <<0, 0 - 52, 15892, 13938, 16346, 2014>> >>
      [] i = 126 -> << <<0, 0 - 108, 3485, 13895, 5044, 1506>>,
                      <<0, 0 - 52, 4312, 1658, 15384, 2025>> >>
      [] i = 127 -> << <<0, 0 - 110, 3209, 1411, 7188, 1217>>,
                      <<0, 0 - 52, 12785, 11837, 15394, 2036>> >>

\* the integer k of the float 1.5 * 2^52 + k, for k below 2^27 in magnitude
ShiftedInt(ks) == ks[3] + Limb * ks[4] + Limb * Limb * (ks[5] + Limb * (ks[6] - 1536))

\* scale + scale * tmp
exp_scale(tmp, scale) == FFma(tmp, scale, scale)

\* tmp = tail + r + r2 * (C2 + r * C3) + r2 * r2 * (C4 + r * C5)
exp_poly(r, r2, T, top) ==
    exp_scale(FFma(FFma(r, ExpC5, ExpC4), FMul(r2, r2),
                   FFma(FFma(r, ExpC3, ExpC2), r2, FAdd(r, T[1]))),
              <<0, T[2][2] + top, T[2][3], T[2][4], T[2][5], T[2][6]>>)

exp_r(r, k) == exp_poly(r, FMul(r, r), exp_tab(k % 128), k \div 128)

\* r = x + kd * NegLn2hiN + kd * NegLn2loN + xtail
exp_kd(x, xtail, ks, kd) ==
    exp_r(FAdd(xtail, FFma(kd, NegLn2loN, FFma(kd, NegLn2hiN, x))), ShiftedInt(ks))

exp_ks(x, xtail, ks) == exp_kd(x, xtail, ks, FSub(ks, Shift))

\* exp_inline: exp(x + xtail) for |x| < 512; below 2^-54 it is 1 + x
exp_inline(x, xtail) ==
    IF x = FZero \/ x[2] + 52 < 0 - 54 THEN FAdd(FInt(1), x)
    ELSE exp_ks(x, xtail, FFma(x, InvLn2N, Shift))

\* ehi = y * hi, elo = y * lo + fma(y, hi, -ehi)
pow_exp(y, hi, lo, ehi) == exp_inline(ehi, FFma(y, lo, FFma(hi, y, FNeg(ehi))))

pow_log(y, l) == pow_exp(y, l[1], l[2], FMul(y, l[1]))

\* pow(x, y) of the C library for a float x > 0 and a float y # 0
pow(x, y) == pow_log(y, log_inline(x))

\* float_pow of CPython for finite operands, y a whole number when x < 0:
\* x ** 0 is 1, 0 ** y is 0 for y > 0, the power of a negative x is that of -x
\* (negated for an odd y), 1 ** y is 1, and the rest is pow(), here p
float_pow_of(x, y, p) ==
    IF y = FZero THEN FInt(1)
    ELSE IF x = FZero THEN x
    ELSE IF x[1] = 1 /\ FTrunc(y) % 2 = 1
    THEN (IF x = FInt(0 - 1) THEN x ELSE FNeg(p))
    ELSE (IF x = FInt(1) \/ x = FInt(0 - 1) THEN FInt(1) ELSE p)

float_pow(x, y) == float_pow_of(x, y, pow(<<0, x[2], x[3], x[4], x[5], x[6]>>, y))

\* x ** n for a float x and a natural n
FPow(x, n) == float_pow(x, FInt(n))

\* x ** 0.5 for x >= 0
FSqrt(x) == float_pow(x, <<0, 0 - 53, 0, 0, 0, 2^10>>)

\* a decimal record field is held as its value times 100; Dec(k) is the float
\* Python holds for it, the float nearest to k / 100
Dec(k) == FDiv(FInt(k), FInt(100))

\* Python round(x, 1) and round(x, 2), in hundredths
Round1(x) == 10 * RoundScaled(x, 1)
Round2(x) == RoundScaled(x, 2)

\* the whole number n in hundredths
H(n) == 100 * n

(***************************************************************************)
(* data/mock_properties.py                                                 *)
(***************************************************************************)
get_sample_properties ==
    << [property_id |-> "PROP-001", address |-> "1234 Maple Street", city |-> "Austin",
        price |-> 425000, sqft |-> 1850, year_built |-> 2015,
        property_type |-> "Single Family", estimated_rent |-> 2400, hoa_fees |-> 0,
        property_tax_annual |-> 8500, insurance_annual |-> 1800],
       [property_id |-> "PROP-002", address |-> "567 Ocean View Blvd", city |-> "San Diego",
        price |-> 785000, sqft |-> 1200, year_built |-> 2018,
        property_type |-> "Condo", estimated_rent |-> 3200, hoa_fees |-> 450,
        property_tax_annual |-> 9420, insurance_annual |-> 2100],
       [property_id |-> "PROP-003", address |-> "890 Industrial Ave", city |-> "Phoenix",
        price |-> 320000, sqft |-> 2100, year_built |-> 2008,
        property_type |-> "Single Family", estimated_rent |-> 2100, hoa_fees |-> 0,
        property_tax_annual |-> 3840, insurance_annual |-> 1500],
       [property_id |-> "PROP-004", address |-> "2345 Downtown Plaza", city |-> "Nashville",
        price |-> 550000, sqft |-> 1650, year_built |-> 2020,
        property_type |-> "Multi-Family", estimated_rent |-> 3800, hoa_fees |-> 200,
        property_tax_annual |-> 5500, insurance_annual |-> 2200],
       [property_id |-> "PROP-005", address |-> "678 Suburban Lane", city |-> "Charlotte",
        price |-> 380000, sqft |-> 1900, year_built |-> 2012,
        property_type |-> "Single Family", estimated_rent |-> 2200, hoa_fees |-> 100,
        property_tax_annual |-> 4560, insurance_annual |-> 1600] >>

\* the dict literal of get_market_data; appreciation_rate, neighborhood_rating and
\* school_rating are in hundredths (850 is 8.5)
MarketTable ==
    ("Austin" :> [appreciation_rate |-> 850, market_heat |-> "Hot",
                  competition_level |-> "High", neighborhood_rating |-> 850,
                  school_rating |-> 800, crime_index |-> 35,
                  avg_price_per_sqft |-> 245])
    @@ ("San Diego" :> [appreciation_rate |-> 620, market_heat |-> "Warm",
                  competition_level |-> "High", neighborhood_rating |-> 900,
                  school_rating |-> 850, crime_index |-> 28,
                  avg_price_per_sqft |-> 625])
    @@ ("Phoenix" :> [appreciation_rate |-> 910, market_heat |-> "Hot",
                  competition_level |-> "Medium", neighborhood_rating |-> 750,
                  school_rating |-> 700, crime_index |-> 42,
                  avg_price_per_sqft |-> 165])
    @@ ("Nashville" :> [appreciation_rate |-> 780, market_heat |-> "Hot",
                  competition_level |-> "High", neighborhood_rating |-> 880,
                  school_rating |-> 820, crime_index |-> 32,
                  avg_price_per_sqft |-> 335])
    @@ ("Charlotte" :> [appreciation_rate |-> 650, market_heat |-> "Warm",
                  competition_level |-> "Medium", neighborhood_rating |-> 800,
                  school_rating |-> 780, crime_index |-> 38,
                  avg_price_per_sqft |-> 195])

\* a faulty fallback that returns a blank profile for an unknown city
get_market_data_blank(city) ==
    IF city \in DOMAIN market_data THEN market_data[city]
    ELSE [appreciation_rate |-> 0, market_heat |-> "", competition_level |-> "",
          neighborhood_rating |-> 0, school_rating |-> 0, crime_index |-> 0,
          avg_price_per_sqft |-> 0]

\* a faulty fallback that returns the last entry of the table for an unknown city
get_market_data_last(city) ==
    IF city \in DOMAIN market_data THEN market_data[city] ELSE market_data["Charlotte"]

\* market_data.get(city, market_data["Austin"])
get_market_data(city) ==
    IF city \in DOMAIN market_data THEN market_data[city] ELSE market_data["Austin"]

(***************************************************************************)
(* agents/market_analyzer.py                                               *)
(* location_score of the record is in hundredths                           *)
(***************************************************************************)
\* a faulty location score that weighs the crime index itself, not its complement
location_score_crime(market_info) ==
    FMul(FAdd(FAdd(FMul(Dec(market_info.neighborhood_rating), Dec(30)),
                   FMul(Dec(market_info.school_rating), Dec(30))),
              FMul(FDiv(FInt(market_info.crime_index), FInt(10)), Dec(40))),
         FInt(10))

location_score(market_info) ==
    FMul(FAdd(FAdd(FMul(Dec(market_info.neighborhood_rating), Dec(30)),
                   FMul(Dec(market_info.school_rating), Dec(30))),
              FMul(FDiv(FInt(100 - market_info.crime_index), FInt(10)), Dec(40))),
         FInt(10))

\* lines 37-45: the record built from the city's entry
market_record(market_info) ==
    [location_score      |-> Round1(location_score(market_info)),
     appreciation_rate   |-> market_info.appreciation_rate,
     market_heat         |-> market_info.market_heat,
     competition_level   |-> market_info.competition_level,
     neighborhood_rating |-> market_info.neighborhood_rating,
     school_rating       |-> market_info.school_rating,
     crime_index         |-> market_info.crime_index]

analyze_market(property) == market_record(get_market_data(property.city))

(***************************************************************************)
(* agents/property_evaluator.py                                            *)
(* condition_score and price_per_sqft of the record are in hundredths      *)
(***************************************************************************)
\* line 27 divides by property.sqft and line 34 by the market average
evaluate_raises(property) ==
    \/ property.sqft = 0
    \/ get_market_data(property.city).avg_price_per_sqft = 0

\* a faulty penalty without the cap of 30 points
age_penalty_uncapped(property_age) == FMul(FInt(property_age), Dec(150))

age_penalty(property_age) == FMin(FMul(FInt(property_age), Dec(150)), FInt(30))

condition_score(property_age) == FMax(FSub(FInt(100), age_penalty(property_age)), FInt(50))

\* lines 34-40
value_rating(price_ratio) ==
    IF FLt(price_ratio, Dec(90)) THEN "Undervalued"
    ELSE IF FLt(Dec(110), price_ratio) THEN "Overvalued"
    ELSE "Fair"

renovation_potential(property_age) ==
    IF property_age > 20 THEN "High" ELSE IF property_age > 10 THEN "Medium" ELSE "Low"

\* a faulty line 75 that adds the message to a list of fewer than two issues
issues_or_none_short(issues) ==
    IF Len(issues) >= 2 THEN issues ELSE issues \o <<"No major concerns identified">>

\* line 75: the list of issues, or the one message of an empty list
issues_or_none(issues) ==
    IF issues # <<>> THEN issues ELSE <<"No major concerns identified">>

\* a faulty issue list that flags high HOA fees whatever the property type
issues_flagged_any_type(property, property_age) ==
    issues_or_none(
        (IF property_age > 25
         THEN <<"Roof may need replacement soon", "HVAC system likely aging">>
         ELSE <<>>)
        \o (IF property_age > 40
            THEN <<"Foundation inspection recommended", "Electrical system may need upgrade">>
            ELSE <<>>)
        \o (IF property.hoa_fees > 400
            THEN <<"High HOA fees impact cash flow">>
            ELSE <<>>))

issues_flagged(property, property_age) ==
    issues_or_none(
        (IF property_age > 25
         THEN <<"Roof may need replacement soon", "HVAC system likely aging">>
         ELSE <<>>)
        \o (IF property_age > 40
            THEN <<"Foundation inspection recommended", "Electrical system may need upgrade">>
            ELSE <<>>)
        \o (IF property.property_type = "Condo" /\ property.hoa_fees > 400
            THEN <<"High HOA fees impact cash flow">>
            ELSE <<>>))

\* lines 34-76, from the locals of lines 27, 31 and 44
evaluation(property, price_per_sqft, market_avg_price_per_sqft, property_age) ==
    [condition_score           |-> Round1(condition_score(property_age)),
     price_per_sqft            |-> Round2(price_per_sqft),
     market_avg_price_per_sqft |-> market_avg_price_per_sqft,
     value_rating              |-> value_rating(FDiv(price_per_sqft,
                                                     FInt(market_avg_price_per_sqft))),
     renovation_potential      |-> renovation_potential(property_age),
     issues_flagged            |-> issues_flagged(property, property_age)]

\* current_year is what datetime.now().year returned; property.sqft # 0
evaluate_property(property, current_year) ==
    evaluation(property,
               FDiv(FInt(property.price), FInt(property.sqft)),
               get_market_data(property.city).avg_price_per_sqft,
               current_year - property.year_built)

(***************************************************************************)
(* agents/financial_calculator.py                                          *)
(* cap_rate, cash_on_cash_return and roi_5_year of the record are in       *)
(* hundredths; the other fields are the integers int() returns             *)
(***************************************************************************)
\* a faulty mortgage rate of 3%
interest_rate_low == Dec(3)

down_payment_pct == Dec(20)
interest_rate == Dec(7)
loan_term_years == 30
vacancy_rate == Dec(5)
maintenance_rate == Dec(10)
property_mgmt_rate == Dec(8)
closing_cost_rate == Dec(3)
months_paid == 60

\* a faulty line 46 that keeps the vacant share of the rent instead of the let share
effective_rent_vacant(estimated_rent) == FMul(estimated_rent, vacancy_rate)

\* line 46
effective_rent(estimated_rent) == FMul(estimated_rent, FSub(FInt(1), vacancy_rate))

\* loan * rate * growth / (growth - 1), growth being (1 + rate) ** payments
amortized(loan_amount, monthly_rate, growth) ==
    FDiv(FMul(FMul(loan_amount, monthly_rate), growth), FSub(growth, FInt(1)))

\* the payment formula of lines 37-38 and 105-106
monthly_payment(loan_amount, monthly_rate, num_payments) ==
    amortized(loan_amount, monthly_rate, FPow(FAdd(FInt(1), monthly_rate), num_payments))

\* lines 112-115: the loop variables after one more month
equity_month(loop, principal_payment) ==
    [month                |-> loop.month + 1,
     balance              |-> FSub(loop.balance, principal_payment),
     total_principal_paid |-> FAdd(loop.total_principal_paid, principal_payment)]

\* the for loop of _calculate_equity_buildup, from iteration loop.month on
RECURSIVE equity_loop(_, _, _, _)
equity_loop(loop, payment, monthly_rate, months) ==
    IF loop.month >= months THEN loop.total_principal_paid
    ELSE equity_loop(equity_month(loop, FSub(payment, FMul(loop.balance, monthly_rate))),
                     payment, monthly_rate, months)

calculate_equity_buildup(loan_amount, monthly_rate, total_payments, months) ==
    equity_loop([month |-> 0, balance |-> loan_amount, total_principal_paid |-> FZero],
                monthly_payment(loan_amount, monthly_rate, total_payments),
                monthly_rate, months)

\* lines 83-86, on the unrounded cash flow and investment
break_even_months(total_investment, monthly_cash_flow) ==
    IF FLt(FZero, monthly_cash_flow)
    THEN FTrunc(FDiv(total_investment, monthly_cash_flow))
    ELSE 999

\* lines 132-133 of get_financial_insights: the months, or the sentence
payback_timeline(metrics) ==
    IF metrics.break_even_months < 999
    THEN <<metrics.break_even_months, "months">>
    ELSE <<"Does not break even">>

\* line 38 divides by (1 + monthly_rate)**num_payments - 1, line 66 by
\* property.price and line 73 by total_investment
metrics_raises(property) ==
    \/ FSub(FPow(FAdd(FInt(1), FDiv(interest_rate, FInt(12))), loan_term_years * 12),
            FInt(1)) = FZero
    \/ property.price = 0
    \/ FAdd(FMul(FInt(property.price), down_payment_pct),
            FMul(FInt(property.price), closing_cost_rate)) = FZero

\* the locals of calculate_metrics that are computed from its arguments alone
\* (lines 31, 35-36, 41-50, 69 and 76); l holds the locals by name
metrics_terms(property, appreciation_rate) ==
    [price                  |-> FInt(property.price),
     down_payment           |-> FMul(FInt(property.price), down_payment_pct),
     monthly_rate           |-> FDiv(interest_rate, FInt(12)),
     num_payments           |-> loan_term_years * 12,
     monthly_property_tax   |-> FDiv(FInt(property.property_tax_annual), FInt(12)),
     monthly_insurance      |-> FDiv(FInt(property.insurance_annual), FInt(12)),
     monthly_hoa            |-> FInt(property.hoa_fees),
     effective_monthly_rent |-> effective_rent(FInt(property.estimated_rent)),
     monthly_maintenance    |-> FMul(FInt(property.estimated_rent), maintenance_rate),
     monthly_mgmt           |-> FMul(FInt(property.estimated_rent), property_mgmt_rate),
     closing_costs          |-> FMul(FInt(property.price), closing_cost_rate),
     future_value           |-> FMul(FInt(property.price),
                                     FPow(FAdd(FInt(1),
                                               FDiv(Dec(appreciation_rate), FInt(100))), 5))]

\* lines 32, 61-63 and 70
metrics_loan(l) ==
    l @@ [loan_amount      |-> FSub(l.price, l.down_payment),
          annual_noi       |-> FSub(FMul(l.effective_monthly_rent, FInt(12)),
                                    FMul(FAdd(FAdd(FAdd(FAdd(l.monthly_property_tax,
                                         l.monthly_insurance), l.monthly_hoa),
                                         l.monthly_maintenance), l.monthly_mgmt), FInt(12))),
          total_investment |-> FAdd(l.down_payment, l.closing_costs)]

\* lines 37-38 and 77
metrics_mortgage(l) ==
    l @@ [monthly_mortgage |-> monthly_payment(l.loan_amount, l.monthly_rate, l.num_payments),
          equity_buildup   |-> calculate_equity_buildup(l.loan_amount, l.monthly_rate,
                                                        l.num_payments, months_paid)]

\* lines 52-57
metrics_cash_flow(l) ==
    l @@ [monthly_cash_flow |->
              FSub(l.effective_monthly_rent,
                   FAdd(FAdd(FAdd(FAdd(FAdd(l.monthly_mortgage, l.monthly_property_tax),
                        l.monthly_insurance), l.monthly_hoa), l.monthly_maintenance),
                        l.monthly_mgmt))]

\* line 58
metrics_annual(l) == l @@ [annual_cash_flow |-> FMul(l.monthly_cash_flow, FInt(12))]

\* lines 66, 73, 78-80 and 83-97
metrics_record(l) ==
    [cap_rate             |-> Round2(FMul(FDiv(l.annual_noi, l.price), FInt(100))),
     cash_on_cash_return  |-> Round2(FMul(FDiv(l.annual_cash_flow, l.total_investment),
                                          FInt(100))),
     monthly_cash_flow    |-> FTrunc(l.monthly_cash_flow),
     annual_cash_flow     |-> FTrunc(l.annual_cash_flow),
     roi_5_year           |-> Round2(FMul(FDiv(FAdd(FAdd(FSub(l.future_value, l.price),
                                                         l.equity_buildup),
                                                    FMul(l.annual_cash_flow, FInt(5))),
                                               l.total_investment), FInt(100))),
     break_even_months    |-> break_even_months(l.total_investment, l.monthly_cash_flow),
     total_investment     |-> FTrunc(l.total_investment),
     net_operating_income |-> FTrunc(l.annual_noi)]

\* property.price # 0; appreciation_rate is in hundredths
calculate_metrics(property, appreciation_rate) ==
    metrics_record(metrics_annual(metrics_cash_flow(metrics_mortgage(metrics_loan(
        metrics_terms(property, appreciation_rate))))))

(***************************************************************************)
(* agents/decision_engine.py                                               *)
(* the scores the helpers pass around are floats; cap_rate, roi_5_year,    *)
(* location_score, condition_score, appreciation_rate and school_rating    *)
(* are read from the records in hundredths; overall_score and confidence   *)
(* of the record are in hundredths                                         *)
(***************************************************************************)
weights == [financial |-> Dec(40), market |-> Dec(30), property |-> Dec(30)]

cash_flow_score(monthly_cash_flow) ==
    IF monthly_cash_flow >= 500 THEN 30
    ELSE IF monthly_cash_flow >= 300 THEN 25
    ELSE IF monthly_cash_flow >= 100 THEN 20
    ELSE IF monthly_cash_flow > 0 THEN 15
    ELSE 0

\* a faulty grade whose lower bounds are exclusive
assign_grade_exclusive(score) ==
    IF FLt(FInt(90), score) THEN "A+"
    ELSE IF FLt(FInt(85), score) THEN "A"
    ELSE IF FLt(FInt(80), score) THEN "A-"
    ELSE IF FLt(FInt(75), score) THEN "B+"
    ELSE IF FLt(FInt(70), score) THEN "B"
    ELSE IF FLt(FInt(65), score) THEN "B-"
    ELSE IF FLt(FInt(60), score) THEN "C+"
    ELSE IF FLt(FInt(55), score) THEN "C"
    ELSE "D"

assign_grade(score) ==
    IF FLe(FInt(90), score) THEN "A+"
    ELSE IF FLe(FInt(85), score) THEN "A"
    ELSE IF FLe(FInt(80), score) THEN "A-"
    ELSE IF FLe(FInt(75), score) THEN "B+"
    ELSE IF FLe(FInt(70), score) THEN "B"
    ELSE IF FLe(FInt(65), score) THEN "B-"
    ELSE IF FLe(FInt(60), score) THEN "C+"
    ELSE IF FLe(FInt(55), score) THEN "C"
    ELSE "D"

\* a faulty recommendation that leaves out the cash-flow test of lines 128-129
determine_recommendation_by_score(score, metrics) ==
    IF FLe(FInt(80), score) THEN "Strong Buy"
    ELSE IF FLe(FInt(70), score) THEN "Buy"
    ELSE IF FLe(FInt(60), score) THEN "Consider"
    ELSE "Pass"

\* a faulty recommendation whose cash-flow test is inverted
determine_recommendation_inverted(score, metrics) ==
    IF metrics.monthly_cash_flow >= 0 THEN "Pass"
    ELSE IF FLe(FInt(80), score) THEN "Strong Buy"
    ELSE IF FLe(FInt(70), score) THEN "Buy"
    ELSE IF FLe(FInt(60), score) THEN "Consider"
    ELSE "Pass"

\* a faulty recommendation that tests the score rounded to one decimal, as the
\* record shows it, instead of the score the grade is assigned from
determine_recommendation_rounded(score, metrics) ==
    IF metrics.monthly_cash_flow <= 0 THEN "Pass"
    ELSE IF Round1(score) >= 8000 THEN "Strong Buy"
    ELSE IF Round1(score) >= 7000 THEN "Buy"
    ELSE IF Round1(score) >= 6000 THEN "Consider"
    ELSE "Pass"

determine_recommendation(score, metrics) ==
    IF metrics.monthly_cash_flow <= 0 THEN "Pass"
    ELSE IF FLe(FInt(80), score) THEN "Strong Buy"
    ELSE IF FLe(FInt(70), score) THEN "Buy"
    ELSE IF FLe(FInt(60), score) THEN "Consider"
    ELSE "Pass"

\* lines 82-100: cap_rate_score + cash_flow_score + roi_score, capped at 100
calculate_financial_score(metrics) ==
    FMin(FAdd(FAdd(FMin(FMul(Dec(metrics.cap_rate), FInt(4)), FInt(40)),
                   FInt(cash_flow_score(metrics.monthly_cash_flow))),
              FMin(FDiv(Dec(metrics.roi_5_year), FInt(3)), FInt(30))),
         FInt(100))

\* line 145
avg_score(financial_score, market_score, property_score) ==
    FDiv(FAdd(FAdd(financial_score, market_score), property_score), FInt(3))

\* (s - avg_score) ** 2: a float to an int power, computed by pow() as well
squared_deviation(s, avg) == FPow(FSub(s, avg), 2)

\* line 148: the sum over the three scores
sum_of_squares(financial_score, market_score, property_score, avg) ==
    FAdd(FAdd(squared_deviation(financial_score, avg), squared_deviation(market_score, avg)),
         squared_deviation(property_score, avg))

\* a faulty variance that divides by n - 1 (the sample variance)
sample_variance(financial_score, market_score, property_score) ==
    FDiv(sum_of_squares(financial_score, market_score, property_score,
                        avg_score(financial_score, market_score, property_score)), FInt(2))

\* lines 144-148: the population variance of the three scores
score_variance(financial_score, market_score, property_score) ==
    FDiv(sum_of_squares(financial_score, market_score, property_score,
                        avg_score(financial_score, market_score, property_score)), FInt(3))

calculate_confidence(financial_score, market_score, property_score) ==
    FMax(FSub(FInt(100),
              FMul(FSqrt(score_variance(financial_score, market_score, property_score)),
                   FInt(3))),
         FInt(50))

\* a faulty count in which the checks of one group exclude each other (elif),
\* so that a group adds at most one risk factor
assess_risk_elif(market, prop_eval, metrics) ==
    LET risk_factors ==
            (IF market.market_heat = "Cool" \/ market.crime_index > 50
                \/ market.appreciation_rate < H(4) THEN 1 ELSE 0)
            + (IF prop_eval.condition_score < H(60) \/ Len(prop_eval.issues_flagged) > 2
               THEN 1 ELSE 0)
            + (IF metrics.monthly_cash_flow < 200 \/ metrics.cap_rate < H(5) THEN 1 ELSE 0)
    IN  IF risk_factors >= 4 THEN "High" ELSE IF risk_factors >= 2 THEN "Medium" ELSE "Low"

assess_risk(market, prop_eval, metrics) ==
    LET risk_factors ==
            (IF market.market_heat = "Cool" THEN 1 ELSE 0)
            + (IF market.crime_index > 50 THEN 1 ELSE 0)
            + (IF market.appreciation_rate < H(4) THEN 1 ELSE 0)
            + (IF prop_eval.condition_score < H(60) THEN 1 ELSE 0)
            + (IF Len(prop_eval.issues_flagged) > 2 THEN 1 ELSE 0)
            + (IF metrics.monthly_cash_flow < 200 THEN 1 ELSE 0)
            + (IF metrics.cap_rate < H(5) THEN 1 ELSE 0)
    IN  IF risk_factors >= 4 THEN "High" ELSE IF risk_factors >= 2 THEN "Medium" ELSE "Low"

\* a formatted message is its text and the value the f-string prints
\* a faulty list that pads a single strength with the default sentence
identify_strengths_padded(market, prop_eval, metrics) ==
    LET strengths ==
            (IF metrics.cap_rate > H(8)
             THEN << <<"Excellent cap rate", metrics.cap_rate>> >> ELSE <<>>)
            \o (IF metrics.monthly_cash_flow > 500
                THEN << <<"Strong cash flow", metrics.monthly_cash_flow>> >> ELSE <<>>)
            \o (IF market.appreciation_rate > H(7)
                THEN << <<"High appreciation market", market.appreciation_rate>> >> ELSE <<>>)
            \o (IF market.location_score > H(80)
                THEN << <<"Premium location", market.location_score>> >> ELSE <<>>)
            \o (IF prop_eval.value_rating = "Undervalued"
                THEN << <<"Property priced below market">> >> ELSE <<>>)
            \o (IF market.school_rating >= H(8)
                THEN << <<"Excellent schools", market.school_rating>> >> ELSE <<>>)
    IN  IF Len(strengths) >= 2 THEN strengths
        ELSE strengths \o << <<"Meets basic investment criteria">> >>

identify_strengths(market, prop_eval, metrics) ==
    LET strengths ==
            (IF metrics.cap_rate > H(8)
             THEN << <<"Excellent cap rate", metrics.cap_rate>> >> ELSE <<>>)
            \o (IF metrics.monthly_cash_flow > 500
                THEN << <<"Strong cash flow", metrics.monthly_cash_flow>> >> ELSE <<>>)
            \o (IF market.appreciation_rate > H(7)
                THEN << <<"High appreciation market", market.appreciation_rate>> >> ELSE <<>>)
            \o (IF market.location_score > H(80)
                THEN << <<"Premium location", market.location_score>> >> ELSE <<>>)
            \o (IF prop_eval.value_rating = "Undervalued"
                THEN << <<"Property priced below market">> >> ELSE <<>>)
            \o (IF market.school_rating >= H(8)
                THEN << <<"Excellent schools", market.school_rating>> >> ELSE <<>>)
    IN  IF strengths # <<>> THEN strengths ELSE << <<"Meets basic investment criteria">> >>

\* a faulty line 231 that counts every entry of a non-empty issues_flagged
identify_concerns_counting(market, prop_eval, metrics) ==
    LET concerns ==
            (IF metrics.monthly_cash_flow < 100
             THEN << <<"Minimal cash flow cushion">> >> ELSE <<>>)
            \o (IF metrics.cap_rate < H(5)
                THEN << <<"Low cap rate", metrics.cap_rate>> >> ELSE <<>>)
            \o (IF market.competition_level = "High"
                THEN << <<"High buyer competition in market">> >> ELSE <<>>)
            \o (IF prop_eval.condition_score < H(70)
                THEN << <<"Property may need significant repairs">> >> ELSE <<>>)
            \o (IF prop_eval.value_rating = "Overvalued"
                THEN << <<"Property priced above market average">> >> ELSE <<>>)
            \o (IF market.crime_index > 45
                THEN << <<"Above-average crime in area">> >> ELSE <<>>)
            \o (IF Len(prop_eval.issues_flagged) >= 1
                THEN << <<"potential property issues", Len(prop_eval.issues_flagged)>> >>
                ELSE <<>>)
    IN  IF concerns # <<>> THEN concerns ELSE << <<"No significant concerns identified">> >>

\* Python's  sub in text  on strings: sub occurs in text at some position
str_contains(text, sub) ==
    \E i \in 1..(Len(text) - Len(sub) + 1) : SubSeq(text, i, i + Len(sub) - 1) = sub

\* "No major concerns" not in issues_flagged[0] is a substring test on the first issue
identify_concerns(market, prop_eval, metrics) ==
    LET concerns ==
            (IF metrics.monthly_cash_flow < 100
             THEN << <<"Minimal cash flow cushion">> >> ELSE <<>>)
            \o (IF metrics.cap_rate < H(5)
                THEN << <<"Low cap rate", metrics.cap_rate>> >> ELSE <<>>)
            \o (IF market.competition_level = "High"
                THEN << <<"High buyer competition in market">> >> ELSE <<>>)
            \o (IF prop_eval.condition_score < H(70)
                THEN << <<"Property may need significant repairs">> >> ELSE <<>>)
            \o (IF prop_eval.value_rating = "Overvalued"
                THEN << <<"Property priced above market average">> >> ELSE <<>>)
            \o (IF market.crime_index > 45
                THEN << <<"Above-average crime in area">> >> ELSE <<>>)
            \o (IF Len(prop_eval.issues_flagged) > 1
                   /\ ~str_contains(prop_eval.issues_flagged[1], "No major concerns")
                THEN << <<"potential property issues", Len(prop_eval.issues_flagged)>> >>
                ELSE <<>>)
    IN  IF concerns # <<>> THEN concerns ELSE << <<"No significant concerns identified">> >>

\* the rationale is one of four templates, filled with grade, cap rate and market heat
generate_rationale(score, grade, metrics, market) ==
    IF FLe(FInt(80), score)
    THEN <<"strong fundamentals across all metrics", grade, metrics.cap_rate, market.market_heat>>
    ELSE IF FLe(FInt(70), score)
    THEN <<"solid investment potential", grade, metrics.cap_rate>>
    ELSE IF FLe(FInt(60), score)
    THEN <<"the investment case is moderate", grade, metrics.cap_rate>>
    ELSE <<"presents challenges", grade, metrics.cap_rate>>

\* lines 38-42
overall_score(financial_score, market_score, property_score) ==
    FAdd(FAdd(FMul(financial_score, weights.financial), FMul(market_score, weights.market)),
         FMul(property_score, weights.property))

\* lines 45-76, from the overall score of lines 38-42
graded_decision(property, market_analysis, property_eval, financial_metrics, scores, overall) ==
    [property_id      |-> property.property_id,
     investment_grade |-> assign_grade(overall),
     overall_score    |-> Round1(overall),
     confidence       |-> Round1(calculate_confidence(scores.financial, scores.market,
                                                      scores.property)),
     recommendation   |-> determine_recommendation(overall, financial_metrics),
     rationale        |-> generate_rationale(overall, assign_grade(overall),
                                             financial_metrics, market_analysis),
     risk_level       |-> assess_risk(market_analysis, property_eval, financial_metrics),
     key_strengths    |-> identify_strengths(market_analysis, property_eval, financial_metrics),
     key_concerns     |-> identify_concerns(market_analysis, property_eval, financial_metrics)]

\* lines 38-76, from the component scores of lines 33-35
scored_decision(property, market_analysis, property_eval, financial_metrics, scores) ==
    graded_decision(property, market_analysis, property_eval, financial_metrics, scores,
                    overall_score(scores.financial, scores.market, scores.property))

make_decision(property, market_analysis, property_eval, financial_metrics) ==
    scored_decision(property, market_analysis, property_eval, financial_metrics,
                    [financial |-> calculate_financial_score(financial_metrics),
                     market    |-> Dec(market_analysis.location_score),
                     property  |-> Dec(property_eval.condition_score)])

(***************************************************************************)
(* Inputs: the properties the program is run on                            *)
(***************************************************************************)
StartYear == 2026
MaxTicks == 1
RentStep == 2500
MaxRentSteps == 3

Rents == {k * RentStep : k \in 0..MaxRentSteps}

\* ages at StartYear on both sides of every threshold of evaluate_property
Ages == {-1, 0, 11, 20, 21, 26, 41}

Samples == {get_sample_properties[i] : i \in DOMAIN get_sample_properties}

PROP001 == get_sample_properties[1]
PROP002 == get_sample_properties[2]

\* a cash flow between 0 and 1, a cash flow of 97, expenses above any income, a
\* city outside the table, and the prices and areas a Property accepts although
\* they are not valid
SpecialProperties ==
    { [PROP001 EXCEPT !.estimated_rent = 4054, !.hoa_fees = 1],
      [PROP001 EXCEPT !.estimated_rent = 4179],
      [PROP001 EXCEPT !.estimated_rent = 0, !.property_tax_annual = 60000],
      [PROP001 EXCEPT !.city = "Denver"],
      [PROP001 EXCEPT !.sqft = 0],
      [PROP001 EXCEPT !.price = 0],
      [PROP001 EXCEPT !.sqft = 0 - 1850],
      [PROP001 EXCEPT !.price = 0 - 425000] }

RentVariants == {[b EXCEPT !.estimated_rent = r] : b \in Samples, r \in Rents}

AgeVariants == {[PROP001 EXCEPT !.year_built = StartYear - a] : a \in Ages}

Properties == Samples \cup RentVariants \cup AgeVariants \cup SpecialProperties

\* the next rent of the grid above r, or r itself at the top of the grid
NextRent(r) ==
    LET above == {x \in Rents : x > r}
    IN  IF above = {} THEN r ELSE CHOOSE x \in above : \A y \in above : x <= y

\* the lists main() is run on: the sample list, a sample or special property
\* followed by itself, and every property followed by the same property at the
\* next rent
Portfolios ==
    {get_sample_properties}
    \cup {<<q, q>> : q \in Samples \cup AgeVariants \cup SpecialProperties}
    \cup {<<q, [q EXCEPT !.estimated_rent = NextRent(q.estimated_rent)]>> : q \in Properties}

(***************************************************************************)
(* The program: main() runs analyze_property on each property in turn      *)
(***************************************************************************)
Init ==
    /\ clock = StartYear
    /\ market_data = MarketTable
    /\ properties \in Portfolios
    /\ idx = 1
    /\ pc = "market"
    /\ results = <<>>
    /\ all_results = <<>>
    /\ output_file = <<>>

\* the calendar year changes; the program reads it in evaluate_property only
Tick ==
    /\ pc = "evaluation"
    /\ clock < StartYear + MaxTicks
    /\ clock' = clock + 1
    /\ UNCHANGED <<market_data, properties, idx, pc, results, all_results, output_file>>

AnalyzeMarket ==
    /\ pc = "market"
    /\ results' = [market |-> analyze_market(properties[idx])]
    /\ pc' = "evaluation"
    /\ UNCHANGED <<clock, market_data, properties, idx, all_results, output_file>>

\* current_year records the year read at line 43
EvaluateProperty ==
    /\ pc = "evaluation"
    /\ IF evaluate_raises(properties[idx])
       THEN /\ pc' = "crashed"
            /\ UNCHANGED results
       ELSE /\ pc' = "financial"
            /\ results' = [market |-> results.market,
                           evaluation |-> evaluate_property(properties[idx], clock),
                           current_year |-> clock]
    /\ UNCHANGED <<clock, market_data, properties, idx, all_results, output_file>>

\* a faulty line 92 that passes the appreciation rate of the default city instead
\* of that of the market analysis of the property
CalculateMetricsDefaultRate ==
    /\ pc = "financial"
    /\ IF metrics_raises(properties[idx])
       THEN /\ pc' = "crashed"
            /\ UNCHANGED results
       ELSE /\ pc' = "decision"
            /\ results' = [market |-> results.market, evaluation |-> results.evaluation,
                           current_year |-> results.current_year,
                           financial |-> calculate_metrics(properties[idx],
                                            market_data["Austin"].appreciation_rate)]
    /\ UNCHANGED <<clock, market_data, properties, idx, all_results, output_file>>

CalculateMetrics ==
    /\ pc = "financial"
    /\ IF metrics_raises(properties[idx])
       THEN /\ pc' = "crashed"
            /\ UNCHANGED results
       ELSE /\ pc' = "decision"
            /\ results' = [market |-> results.market, evaluation |-> results.evaluation,
                           current_year |-> results.current_year,
                           financial |-> calculate_metrics(properties[idx],
                                                           results.market.appreciation_rate)]
    /\ UNCHANGED <<clock, market_data, properties, idx, all_results, output_file>>

\* a faulty _identify_concerns that collects the concerns in the issues_flagged
\* list of the evaluation it receives instead of a list of its own
MakeDecisionAliased ==
    /\ pc = "decision"
    /\ results' = [market |-> results.market,
                   evaluation |-> [results.evaluation EXCEPT !.issues_flagged =
                       results.evaluation.issues_flagged \o
                       identify_concerns(results.market, results.evaluation, results.financial)],
                   current_year |-> results.current_year, financial |-> results.financial,
                   decision |-> make_decision(properties[idx], results.market,
                                              results.evaluation, results.financial)]
    /\ pc' = "append"
    /\ UNCHANGED <<clock, market_data, properties, idx, all_results, output_file>>

MakeDecision ==
    /\ pc = "decision"
    /\ results' = [market |-> results.market, evaluation |-> results.evaluation,
                   current_year |-> results.current_year, financial |-> results.financial,
                   decision |-> make_decision(properties[idx], results.market,
                                              results.evaluation, results.financial)]
    /\ pc' = "append"
    /\ UNCHANGED <<clock, market_data, properties, idx, all_results, output_file>>

\* analyze_property returns; main() stores the property and appends the result
AppendResult ==
    /\ pc = "append"
    /\ all_results' = Append(all_results,
                             [market |-> results.market, evaluation |-> results.evaluation,
                              current_year |-> results.current_year,
                              financial |-> results.financial, decision |-> results.decision,
                              property |-> properties[idx]])
    /\ IF idx < Len(properties)
       THEN /\ idx' = idx + 1
            /\ pc' = "market"
       ELSE /\ idx' = idx
            /\ pc' = "done"
    /\ results' = <<>>
    /\ UNCHANGED <<clock, market_data, properties, output_file>>

\* lines 229-242: the entry save_results writes for each result
serializable_result(result) ==
    [property_id       |-> result.property.property_id,
     address           |-> result.property.address,
     city              |-> result.property.city,
     price             |-> result.property.price,
     investment_grade  |-> result.decision.investment_grade,
     overall_score     |-> result.decision.overall_score,
     recommendation    |-> result.decision.recommendation,
     cap_rate          |-> result.financial.cap_rate,
     monthly_cash_flow |-> result.financial.monthly_cash_flow,
     roi_5_year        |-> result.financial.roi_5_year]

\* the list json.dump writes to analysis_results.json
save_results(all) == [i \in DOMAIN all |-> serializable_result(all[i])]

\* after the loop main() shows the summary and the top property, and saves
SaveResults ==
    /\ pc = "done"
    /\ output_file' = save_results(all_results)
    /\ pc' = "saved"
    /\ UNCHANGED <<clock, market_data, properties, idx, results, all_results>>

Next ==
    \/ Tick
    \/ AnalyzeMarket
    \/ EvaluateProperty
    \/ CalculateMetrics
    \/ MakeDecision
    \/ AppendResult
    \/ SaveResults

Spec == Init /\ [][Next]_vars

(***************************************************************************)
(* The decision engine on its own: make_decision is called with the three  *)
(* records of any caller, not only with those the other agents produce     *)
(***************************************************************************)
CapRates == {0 - 200, 0, 279, 800, 1000}
CashFlows == {0 - 1272, 0, 1, 100, 300, 500}
Rois == {0 - 3000, 0, 890, 1800, 1803, 9000, 16129}
LocationScores == {0, 7600, 10000}
ConditionScores == {5000, 7600, 10000}

DecisionMarkets ==
    {[analyze_market(PROP001) EXCEPT !.location_score = l] : l \in LocationScores}

DecisionEvaluations ==
    {[evaluate_property(PROP001, StartYear) EXCEPT !.condition_score = c] :
        c \in ConditionScores}

DecisionMetrics ==
    {[cap_rate |-> c, cash_on_cash_return |-> 0, monthly_cash_flow |-> m,
      annual_cash_flow |-> 12 * m, roi_5_year |-> r, break_even_months |-> 999,
      total_investment |-> 97750, net_operating_income |-> 11875] :
        c \in CapRates, m \in CashFlows, r \in Rois}

InitDecision ==
    /\ clock = StartYear
    /\ market_data = MarketTable
    /\ properties = <<PROP001>>
    /\ idx = 1
    /\ pc = "decision"
    /\ results \in {[market |-> m, evaluation |-> e, current_year |-> StartYear,
                      financial |-> f] :
                        m \in DecisionMarkets, e \in DecisionEvaluations,
                        f \in DecisionMetrics}
    /\ all_results = <<>>
    /\ output_file = <<>>

NextDecision == MakeDecision \/ AppendResult

SpecDecision == InitDecision /\ [][NextDecision]_vars

(***************************************************************************)
(* The market analyzer on any profile: the Austin entry of the table holds *)
(* ratings and a crime index from the declared ranges                      *)
(***************************************************************************)
Ratings == {0, 5, 333, 555, 850, 995, 1000}
CrimeIndexes == {0, 1, 35, 50, 99, 100}

Profiles ==
    {[MarketTable["Austin"] EXCEPT !.neighborhood_rating = n, !.school_rating = s,
                                   !.crime_index = c] :
        n \in Ratings, s \in Ratings, c \in CrimeIndexes}

InitProfile ==
    /\ clock = StartYear
    /\ market_data \in {[MarketTable EXCEPT !["Austin"] = p] : p \in Profiles}
    /\ properties = <<PROP001>>
    /\ idx = 1
    /\ pc = "market"
    /\ results = <<>>
    /\ all_results = <<>>
    /\ output_file = <<>>

NextProfile == AnalyzeMarket \/ Tick \/ EvaluateProperty

SpecProfile == InitProfile /\ [][NextProfile]_vars

(***************************************************************************)
(* The property evaluator on any age, type and HOA fee: PROP-001 and       *)
(* PROP-002 with ages on both sides of the thresholds of lines 51-66       *)
(***************************************************************************)
FlagAges == {0, 10, 11, 20, 21, 25, 26, 40, 41, 45}
HoaFees == {0, 400, 401, 450}
PropertyTypes == {"Single Family", "Condo", "Multi-Family"}

\* the city of the sample, and two names that are no key of the market table
UnknownCities == {"Denver", ""}

AgedProperties ==
    {[b EXCEPT !.year_built = StartYear - a, !.property_type = t, !.hoa_fees = h,
               !.city = c] :
        b \in {PROP001, PROP002}, a \in FlagAges, t \in PropertyTypes, h \in HoaFees,
        c \in {"Austin", "San Diego"} \cup UnknownCities}

InitEvaluator ==
    /\ clock = StartYear
    /\ market_data = MarketTable
    /\ properties \in {<<q>> : q \in AgedProperties}
    /\ idx = 1
    /\ pc = "market"
    /\ results = <<>>
    /\ all_results = <<>>
    /\ output_file = <<>>

NextEvaluator == AnalyzeMarket \/ Tick \/ EvaluateProperty

SpecEvaluator == InitEvaluator /\ [][NextEvaluator]_vars

(***************************************************************************)
(* Properties                                                              *)
(***************************************************************************)
\* the properties the specification calls valid
ValidProperty(property) == property.price > 0 /\ property.sqft > 0

\* the stored results whose property is valid
ValidResults == {i \in DOMAIN all_results : ValidProperty(all_results[i].property)}

\* make_decision has returned and its result is in results
Decided == pc = "append"

\* C1: whatever the overall score, a decision made on a monthly_cash_flow <= 0
\* recommends "Pass", never Strong Buy, Buy or Consider
C1_NonPositiveCashFlowPasses ==
    (Decided /\ results.financial.monthly_cash_flow <= 0)
        => results.decision.recommendation = "Pass"

\* a decision on a cash flow <= 0 whose overall score is 80 or more
C1_Witness ==
    /\ Decided
    /\ results.financial.monthly_cash_flow <= 0
    /\ results.decision.overall_score >= H(80)
    /\ results.decision.recommendation = "Pass"

\* C2: on a valid property the record's break_even_months is 999 when
\* the record's monthly_cash_flow is <= 0 and floor(total_investment /
\* monthly_cash_flow) of the record's values when it is > 0
C2_BreakEvenOfRecord ==
    \A i \in ValidResults :
        LET f == all_results[i].financial
        IN  /\ f.monthly_cash_flow <= 0 => f.break_even_months = 999
            /\ f.monthly_cash_flow > 0
                   => f.break_even_months = f.total_investment \div f.monthly_cash_flow

\* C3: on a valid property the overall_score of the recommendation is in 0..100
C3_OverallScoreInRange ==
    \A i \in ValidResults :
        /\ 0 <= all_results[i].decision.overall_score
        /\ all_results[i].decision.overall_score <= H(100)

\* C4: on a valid property, whatever its year_built, condition_score is in 50..100
C4_ConditionScoreInRange ==
    \A i \in ValidResults :
        /\ H(50) <= all_results[i].evaluation.condition_score
        /\ all_results[i].evaluation.condition_score <= H(100)

\* the exact location score of a profile, in thousandths:
\* (neighborhood_rating*0.3 + school_rating*0.3 + (100 - crime_index)/10*0.4)*10
ExactLocationScore(market_info) ==
    30 * market_info.neighborhood_rating + 30 * market_info.school_rating
    + 400 * (100 - market_info.crime_index)

\* the profile is within the declared ranges
ProfileInRange(market_info) ==
    /\ 0 <= market_info.neighborhood_rating /\ market_info.neighborhood_rating <= H(10)
    /\ 0 <= market_info.school_rating /\ market_info.school_rating <= H(10)
    /\ 0 <= market_info.crime_index /\ market_info.crime_index <= 100

\* analyze_market has returned and its result is in results
Analyzed == pc = "evaluation"

\* C5: on a profile within the declared ranges location_score is the weighted
\* formula rounded to one decimal (a whole number of tenths no further than
\* 0.05 from the exact value) and lies in 0..100
C5_LocationScoreRounded ==
    (Analyzed /\ ProfileInRange(get_market_data(properties[idx].city)))
        => LET exact == ExactLocationScore(get_market_data(properties[idx].city))
               score == results.market.location_score
           IN  /\ score % 10 = 0
               /\ 10 * score - exact <= 50
               /\ exact - 10 * score <= 50
               /\ 0 <= score /\ score <= H(100)

\* a profile whose exact score is no whole number of tenths, so that the
\* rounding acts
C5_Witness ==
    /\ Analyzed
    /\ ProfileInRange(get_market_data(properties[idx].city))
    /\ ExactLocationScore(get_market_data(properties[idx].city)) % 100 # 0
    /\ results.market.location_score > 0

\* the exact financial score of a record, in three-hundredths:
\* min(min(cap_rate*4, 40) + cash_flow_score + min(roi_5_year/3, 30), 100)
ExactFinancialScore(metrics) ==
    LET cap_part == IF 12 * metrics.cap_rate < 12000 THEN 12 * metrics.cap_rate ELSE 12000
        roi_part == IF metrics.roi_5_year < 9000 THEN metrics.roi_5_year ELSE 9000
        total    == cap_part + 300 * cash_flow_score(metrics.monthly_cash_flow) + roi_part
    IN  IF total < 30000 THEN total ELSE 30000

\* the three sub-scores of the decision in results, in three-hundredths
SubScores ==
    <<ExactFinancialScore(results.financial), 3 * results.market.location_score,
      3 * results.evaluation.condition_score>>

\* the squared differences of the sub-scores; their sum is the square of three
\* population standard deviations
SquaredDifferences ==
    LET x == SubScores
    IN  <<(x[1] - x[2]) * (x[1] - x[2]), (x[2] - x[3]) * (x[2] - x[3]),
          (x[1] - x[3]) * (x[1] - x[3])>>

\* 100 - confidence of the decision in results, in three-hundredths
ConfidenceGap == 3 * (H(100) - results.decision.confidence)

\* the largest gap the floor of 50 leaves, in three-hundredths, and its square
MaxGap == 3 * H(50)
MaxGapSquared == MaxGap * MaxGap

\* three standard deviations are MaxGap or more
Floored ==
    LET q == SquaredDifferences
    IN  \/ q[1] >= MaxGapSquared \/ q[2] >= MaxGapSquared \/ q[3] >= MaxGapSquared
        \/ q[1] + q[2] + q[3] >= MaxGapSquared

\* the gap is within tol three-hundredths of three standard deviations
GapWithin(tol) ==
    LET q == SquaredDifferences
        g == ConfidenceGap
    IN  /\ ~Floored
        /\ (g > tol => (g - tol) * (g - tol) <= q[1] + q[2] + q[3])
        /\ q[1] + q[2] + q[3] <= (g + tol) * (g + tol)

\* C6 as stated: the confidence is in 50..100, is 100 exactly when the three
\* sub-scores are equal, and equals max(100 - 3*population-stddev, 50) (to one
\* three-hundredth, which is far more than a float's rounding moves it)
C6_ConfidenceExact ==
    Decided =>
        /\ H(50) <= results.decision.confidence
        /\ results.decision.confidence <= H(100)
        /\ results.decision.confidence = H(100)
              <=> (SubScores[1] = SubScores[2] /\ SubScores[2] = SubScores[3])
        /\ IF Floored THEN results.decision.confidence = H(50) ELSE GapWithin(1)

\* C6: the confidence is max(100 - 3*population-stddev, 50) rounded to one
\* decimal: it is in 50..100, a whole number of tenths no further than 0.05 from
\* that value, 100 when the three sub-scores are equal, and 50 when three
\* standard deviations are 50 or more
C6_ConfidenceRounded ==
    Decided =>
        /\ H(50) <= results.decision.confidence
        /\ results.decision.confidence <= H(100)
        /\ results.decision.confidence % 10 = 0
        /\ (SubScores[1] = SubScores[2] /\ SubScores[2] = SubScores[3])
              => results.decision.confidence = H(100)
        /\ IF Floored THEN results.decision.confidence = H(50) ELSE GapWithin(15)

\* a confidence of 100 on sub-scores that are not equal
C6_Witness ==
    /\ Decided
    /\ results.decision.confidence = H(100)
    /\ SubScores[1] # SubScores[2]
    /\ ~Floored

\* stored results i and j are of properties that differ at most in estimated_rent,
\* analyzed in the same year
SameButRent(i, j) ==
    /\ [all_results[i].property EXCEPT !.estimated_rent = 0]
         = [all_results[j].property EXCEPT !.estimated_rent = 0]
    /\ all_results[i].current_year = all_results[j].current_year

\* C7: of two valid properties that differ only in estimated_rent, analyzed on
\* the same market profile in the same year, the one with the higher rent has no
\* lower monthly_cash_flow, cap_rate or overall_score
C7_MonotoneInRent ==
    \A i \in ValidResults : \A j \in ValidResults :
        (/\ SameButRent(i, j)
         /\ all_results[i].property.estimated_rent
              <= all_results[j].property.estimated_rent)
            => /\ all_results[i].financial.monthly_cash_flow
                    <= all_results[j].financial.monthly_cash_flow
               /\ all_results[i].financial.cap_rate <= all_results[j].financial.cap_rate
               /\ all_results[i].decision.overall_score
                    <= all_results[j].decision.overall_score

\* two such results with different rents, the higher rent giving the higher
\* cash flow, cap rate and overall score
C7_Witness ==
    \E i \in ValidResults : \E j \in ValidResults :
        /\ SameButRent(i, j)
        /\ all_results[i].property.estimated_rent < all_results[j].property.estimated_rent
        /\ all_results[i].financial.monthly_cash_flow
             < all_results[j].financial.monthly_cash_flow
        /\ all_results[i].financial.cap_rate < all_results[j].financial.cap_rate
        /\ all_results[i].decision.overall_score < all_results[j].decision.overall_score

\* C9: the sample PROP-001 gets a cap_rate between 6.8 and 7.0, a positive
\* monthly_cash_flow, the grade B or B+ and the recommendation "Buy"
C9_Prop001IsABuy ==
    \A i \in DOMAIN all_results :
        all_results[i].property = PROP001
            => /\ H(6) + 80 <= all_results[i].financial.cap_rate
               /\ all_results[i].financial.cap_rate <= H(7)
               /\ all_results[i].financial.monthly_cash_flow > 0
               /\ all_results[i].decision.investment_grade \in {"B", "B+"}
               /\ all_results[i].decision.recommendation = "Buy"

\* C10: the sample PROP-002 gets a negative monthly_cash_flow and, its cash flow
\* being <= 0, the recommendation "Pass"
C10_Prop002Passes ==
    \A i \in DOMAIN all_results :
        all_results[i].property = PROP002
            => /\ all_results[i].financial.monthly_cash_flow < 0
               /\ all_results[i].decision.recommendation = "Pass"

\* PROP-002 analyzed, with a score that would have made it a "Consider"
C10_Witness ==
    \E i \in DOMAIN all_results :
        /\ all_results[i].property = PROP002
        /\ all_results[i].financial.monthly_cash_flow < 0
        /\ all_results[i].decision.overall_score >= H(60)
        /\ all_results[i].decision.recommendation = "Pass"

\* evaluate_property has returned and its result is in results
Evaluated == pc = "financial"

\* the age evaluate_property computed for the property in results
EvaluatedAge == results.current_year - properties[idx].year_built

\* the message is one of the issues flagged in results
Flagged(message) ==
    \E k \in DOMAIN results.evaluation.issues_flagged :
        results.evaluation.issues_flagged[k] = message

\* C11: issues_flagged holds the roof and HVAC flags iff age > 25, the foundation
\* and electrical flags iff age > 40 and the HOA flag iff the property is a Condo
\* with hoa_fees > 400; a property older than 40 years (so one built 45 years
\* before the year of the evaluation) starts with the four age flags in the
\* order roof, HVAC, foundation, electrical
C11_IssuesFlagged ==
    Evaluated =>
        /\ Flagged("Roof may need replacement soon") <=> EvaluatedAge > 25
        /\ Flagged("HVAC system likely aging") <=> EvaluatedAge > 25
        /\ Flagged("Foundation inspection recommended") <=> EvaluatedAge > 40
        /\ Flagged("Electrical system may need upgrade") <=> EvaluatedAge > 40
        /\ Flagged("High HOA fees impact cash flow")
              <=> (properties[idx].property_type = "Condo" /\ properties[idx].hoa_fees > 400)
        /\ EvaluatedAge > 40
              => /\ Len(results.evaluation.issues_flagged) >= 4
                 /\ SubSeq(results.evaluation.issues_flagged, 1, 4)
                       = <<"Roof may need replacement soon", "HVAC system likely aging",
                           "Foundation inspection recommended",
                           "Electrical system may need upgrade">>

\* a condo built 45 years before the evaluation, with HOA fees above 400: the
\* four age flags and the HOA flag
C11_Witness ==
    /\ Evaluated
    /\ EvaluatedAge = 45
    /\ properties[idx].property_type = "Condo"
    /\ properties[idx].hoa_fees > 400
    /\ Len(results.evaluation.issues_flagged) = 5
    /\ results.evaluation.issues_flagged[5] = "High HOA fees impact cash flow"

\* C12: in every run of analyze_property the stages follow one another in the
\* order market analysis, property evaluation, financial metrics, decision:
\* calculate_metrics starts on results that hold the market analysis of the
\* property and is given its appreciation_rate; make_decision starts on results
\* that hold exactly the three leaf results of the property, is given them, and
\* nothing but the return follows it
C12_StagesInOrder ==
    /\ [](/\ pc = "financial"
              => /\ DOMAIN results = {"market", "evaluation", "current_year"}
                 /\ results.market = analyze_market(properties[idx])
          /\ pc = "decision"
              => /\ DOMAIN results = {"market", "evaluation", "current_year", "financial"}
                 /\ results.market = analyze_market(properties[idx])
                 /\ results.evaluation
                      = evaluate_property(properties[idx], results.current_year)
                 /\ results.financial
                      = calculate_metrics(properties[idx], results.market.appreciation_rate)
          /\ pc = "append"
              => /\ DOMAIN results
                      = {"market", "evaluation", "current_year", "financial", "decision"}
                 /\ results.decision
                      = make_decision(properties[idx], results.market, results.evaluation,
                                      results.financial))
    /\ [][/\ pc' = "evaluation" => pc \in {"market", "evaluation"}
          /\ pc' = "financial" => pc = "evaluation"
          /\ pc' = "decision" => pc = "financial"
          /\ pc' = "append" => pc = "decision"
          /\ pc = "append" => (results' = <<>> /\ idx' >= idx)]_vars

\* make_decision has returned for a property of a city whose appreciation rate
\* is not that of the default city
C12_Witness ==
    /\ pc = "append"
    /\ properties[idx].city = "Phoenix"
    /\ results.market.appreciation_rate # market_data["Austin"].appreciation_rate
    /\ results.decision.property_id = properties[idx].property_id

\* the property with the city replaced by the default city
InAustin(property) == [property EXCEPT !.city = "Austin"]

\* C13: for a city that is no key of the market table analyze_market and
\* evaluate_property end without error and return what they return for the same
\* property in "Austin"; for every city both use the entry get_market_data
\* returns for it
C13_UnknownCityIsAustin ==
    Evaluated =>
        /\ properties[idx].city \notin DOMAIN market_data
              => /\ results.market = analyze_market(InAustin(properties[idx]))
                 /\ results.evaluation
                      = evaluate_property(InAustin(properties[idx]), results.current_year)
        /\ results.market.crime_index = get_market_data(properties[idx].city).crime_index
        /\ results.market.appreciation_rate
              = get_market_data(properties[idx].city).appreciation_rate
        /\ results.evaluation.market_avg_price_per_sqft
              = get_market_data(properties[idx].city).avg_price_per_sqft

\* the San Diego sample moved to an unknown city: it is evaluated on the profile
\* of Austin, not on the one of San Diego
C13_Witness ==
    /\ Evaluated
    /\ properties[idx].city = "Denver"
    /\ properties[idx].property_id = "PROP-002"
    /\ results.market.crime_index = MarketTable["Austin"].crime_index
    /\ results.evaluation.market_avg_price_per_sqft
         = MarketTable["Austin"].avg_price_per_sqft
    /\ results.evaluation.market_avg_price_per_sqft
         # MarketTable["San Diego"].avg_price_per_sqft

\* C14: a property with price <= 0 or sqft <= 0 ends in an error before any
\* PropertyEvaluation, FinancialMetrics or recommendation is produced for it: its
\* run never gets past the property evaluation and no result is stored for it
C14_InvalidFailsFast ==
    /\ (properties[idx].price <= 0 \/ properties[idx].sqft <= 0)
          => pc \notin {"financial", "decision", "append"}
    /\ \A i \in DOMAIN all_results :
          all_results[i].property.price > 0 /\ all_results[i].property.sqft > 0

\* the variance _calculate_confidence takes the root of, for the records in results
ResultsVariance ==
    score_variance(calculate_financial_score(results.financial),
                   Dec(results.market.location_score),
                   Dec(results.evaluation.condition_score))

\* C15: on a valid property no stage ends in an error: the run is never at a
\* stage whose divisions would have a zero divisor, the variance whose root is
\* taken is not negative, the list of issues is never empty, and the concern
\* that reads the first issue is raised on a list of two or more only
C15_NoErrorOnValid ==
    ValidProperty(properties[idx]) =>
        /\ pc # "crashed"
        /\ pc = "evaluation" => ~evaluate_raises(properties[idx])
        /\ pc = "financial" => ~metrics_raises(properties[idx])
        /\ pc = "decision"
              => /\ ResultsVariance[1] = 0
                 /\ Len(results.evaluation.issues_flagged) >= 1
        /\ pc = "append"
              => \A k \in DOMAIN results.decision.key_concerns :
                    results.decision.key_concerns[k][1] = "potential property issues"
                        => Len(results.evaluation.issues_flagged) >= 2

\* a valid property without rent, whose expenses exceed any income, analyzed to
\* the end: its cash flow is negative and its break-even the sentinel
C15_Witness ==
    /\ pc = "done"
    /\ \E i \in ValidResults :
          /\ all_results[i].property.estimated_rent = 0
          /\ all_results[i].financial.monthly_cash_flow < 0
          /\ all_results[i].financial.break_even_months = 999
          /\ Len(all_results[i].decision.key_concerns) >= 2

(***************************************************************************)
(* The pipelines of two properties interleaved: the agents of main() are   *)
(* shared, each call of analyze_property has its own results dict, and the *)
(* stages of one property run in order between those of the other.  Here   *)
(* pc and results hold one entry per property.                             *)
(***************************************************************************)
\* two properties of the table, one of them first; a property without rent and
\* one of a city outside the table; and two portfolios where a stage raises:
\* the metrics of a property without price (with one of the same city), the
\* evaluation of a property without floor area
InterleavedPortfolios ==
    {<<PROP001, PROP002>>,
     <<[PROP002 EXCEPT !.estimated_rent = 0], [PROP001 EXCEPT !.city = "Denver"]>>,
     <<PROP001, [PROP001 EXCEPT !.price = 0]>>,
     <<[PROP002 EXCEPT !.sqft = 0], PROP001>>}

InitInterleaved ==
    /\ clock = StartYear
    /\ market_data = MarketTable
    /\ properties \in InterleavedPortfolios
    /\ idx = 1
    /\ pc = [i \in DOMAIN properties |-> "market"]
    /\ results = [i \in DOMAIN properties |-> <<>>]
    /\ all_results = <<>>
    /\ output_file = <<>>

\* a faulty results dict shared by the calls: a stage of one property stores its
\* record for every property
set_result_shared(i, entry) == [j \in DOMAIN results |-> entry @@ results[j]]

\* results[key] = record, on the dict of the call for property i
set_result(i, entry) == [results EXCEPT ![i] = entry @@ results[i]]

TickInterleaved ==
    /\ \E i \in DOMAIN properties : pc[i] = "evaluation"
    /\ clock < StartYear + MaxTicks
    /\ clock' = clock + 1
    /\ UNCHANGED <<market_data, properties, idx, pc, results, all_results, output_file>>

AnalyzeMarketOf(i) ==
    /\ pc[i] = "market"
    /\ results' = set_result(i, [market |-> analyze_market(properties[i])])
    /\ pc' = [pc EXCEPT ![i] = "evaluation"]
    /\ UNCHANGED <<clock, market_data, properties, idx, all_results, output_file>>

EvaluatePropertyOf(i) ==
    /\ pc[i] = "evaluation"
    /\ IF evaluate_raises(properties[i])
       THEN /\ pc' = [pc EXCEPT ![i] = "crashed"]
            /\ UNCHANGED results
       ELSE /\ pc' = [pc EXCEPT ![i] = "financial"]
            /\ results' = set_result(i, [evaluation |-> evaluate_property(properties[i], clock),
                                         current_year |-> clock])
    /\ UNCHANGED <<clock, market_data, properties, idx, all_results, output_file>>

CalculateMetricsOf(i) ==
    /\ pc[i] = "financial"
    /\ IF metrics_raises(properties[i])
       THEN /\ pc' = [pc EXCEPT ![i] = "crashed"]
            /\ UNCHANGED results
       ELSE /\ pc' = [pc EXCEPT ![i] = "decision"]
            /\ results' = set_result(i, [financial |->
                              calculate_metrics(properties[i],
                                                results[i].market.appreciation_rate)])
    /\ UNCHANGED <<clock, market_data, properties, idx, all_results, output_file>>

MakeDecisionOf(i) ==
    /\ pc[i] = "decision"
    /\ results' = set_result(i, [decision |->
                      make_decision(properties[i], results[i].market,
                                    results[i].evaluation, results[i].financial)])
    /\ pc' = [pc EXCEPT ![i] = "append"]
    /\ UNCHANGED <<clock, market_data, properties, idx, all_results, output_file>>

\* analyze_property returns; the property is stored and the result appended
AppendResultOf(i) ==
    /\ pc[i] = "append"
    /\ all_results' = Append(all_results, [property |-> properties[i]] @@ results[i])
    /\ pc' = [pc EXCEPT ![i] = "done"]
    /\ UNCHANGED <<clock, market_data, properties, idx, results, output_file>>

NextInterleaved ==
    \/ TickInterleaved
    \/ \E i \in DOMAIN properties : AnalyzeMarketOf(i)
    \/ \E i \in DOMAIN properties : EvaluatePropertyOf(i)
    \/ \E i \in DOMAIN properties : CalculateMetricsOf(i)
    \/ \E i \in DOMAIN properties : MakeDecisionOf(i)
    \/ \E i \in DOMAIN properties : AppendResultOf(i)

SpecInterleaved == InitInterleaved /\ [][NextInterleaved]_vars

\* the records analyze_property produces for the property on its own, as far as
\* the record r holds them: market and evaluation are those of the property alone
AloneFrom(r, property, market_analysis, property_eval, financial_metrics) ==
    /\ "market" \in DOMAIN r => r.market = market_analysis
    /\ "evaluation" \in DOMAIN r => r.evaluation = property_eval
    /\ "financial" \in DOMAIN r => r.financial = financial_metrics
    /\ "decision" \in DOMAIN r =>
           r.decision = make_decision(property, market_analysis, property_eval,
                                      financial_metrics)

AloneWith(r, property, market_analysis, current_year) ==
    AloneFrom(r, property, market_analysis, evaluate_property(property, current_year),
              calculate_metrics(property, market_analysis.appreciation_rate))

ProducedAlone(r, property) ==
    IF "current_year" \in DOMAIN r
    THEN AloneWith(r, property, analyze_market(property), r.current_year)
    ELSE "market" \in DOMAIN r => r.market = analyze_market(property)

\* the keys the dict of a call for the property holds at each position of the
\* call; a call that raised holds what was stored before the stage that raised
KeysAt(stage, property) ==
    CASE stage = "market" -> {}
      [] stage = "evaluation" -> {"market"}
      [] stage = "financial" -> {"market", "evaluation", "current_year"}
      [] stage = "decision" -> {"market", "evaluation", "current_year", "financial"}
      [] stage = "crashed" ->
             IF evaluate_raises(property) THEN {"market"}
             ELSE {"market", "evaluation", "current_year"}
      [] OTHER -> {"market", "evaluation", "current_year", "financial", "decision"}

\* C16: the state shared by the properties (the market table the agents read) is
\* never written, and whatever the order in which the stages of two properties
\* interleave, each property holds exactly the records of its own stages, equal
\* to those analyze_property produces for that property alone (in the year its
\* evaluation read), in its dict and in the list of results
C16_InterleavingIndependent ==
    /\ market_data = MarketTable
    /\ \A i \in DOMAIN properties :
          /\ DOMAIN results[i] = KeysAt(pc[i], properties[i])
          /\ ProducedAlone(results[i], properties[i])
    /\ \A k \in DOMAIN all_results :
          \E i \in DOMAIN properties :
              pc[i] = "done" /\ all_results[k] = [property |-> properties[i]] @@ results[i]

\* two properties of different cities, both between their first and their last
\* stage: the second has passed the first one, which is still to be decided
C16_Witness ==
    /\ properties[1].city # properties[2].city
    /\ pc[1] = "decision"
    /\ pc[2] = "append"
    /\ results[1].financial # results[2].financial
    /\ results[1].market # results[2].market

\* the keys a stage adds to the results of the property being analyzed
CreatedBy(stage) ==
    CASE stage = "market" -> {"market"}
      [] stage = "evaluation" -> {"evaluation", "current_year"}
      [] stage = "financial" -> {"financial"}
      [] stage = "decision" -> {"decision"}
      [] OTHER -> {}

\* C17: in a run every stage that completes creates its own record and nothing
\* else: the records created before it, the properties and the results already
\* stored keep every field (so make_decision leaves the market analysis, the
\* evaluation with its issues_flagged and the metrics as they were, and
\* calculate_metrics leaves the property), and the result stored for a property
\* holds the records as they were created
C17_CreatedOnceNeverChanged ==
    [][ /\ properties' = properties
        /\ \A k \in DOMAIN all_results :
              k \in DOMAIN all_results' /\ all_results'[k] = all_results[k]
        /\ pc # "append" =>
              /\ \A key \in DOMAIN results :
                    key \in DOMAIN results' /\ results'[key] = results[key]
              /\ DOMAIN results' \ DOMAIN results =
                    (IF pc' \in {pc, "crashed"} THEN {} ELSE CreatedBy(pc))
        /\ pc = "append" =>
              /\ Len(all_results') = Len(all_results) + 1
              /\ all_results'[Len(all_results')].property = properties[idx]
              /\ \A key \in DOMAIN results :
                    all_results'[Len(all_results')][key] = results[key]
      ]_vars

\* a decision has been made for the second property on an evaluation with several
\* flagged issues, which the concerns count, while the result of the first
\* property is stored
C17_Witness ==
    /\ pc = "append"
    /\ Len(all_results) = 1
    /\ Len(results.evaluation.issues_flagged) >= 2
    /\ Len(results.decision.key_concerns) >= 2
    /\ all_results[1].evaluation = results.evaluation

\* the fields of InvestmentRecommendation (models/property.py 66-74)
RecommendationFields ==
    {"property_id", "investment_grade", "overall_score", "confidence", "recommendation",
     "rationale", "risk_level", "key_strengths", "key_concerns"}

\* C18: once save_results has run, the export holds an entry for every analyzed
\* property, and the entry holds every field of the property's
\* InvestmentRecommendation with the value the decision has
C18_ExportsEveryField ==
    pc = "saved" =>
        /\ DOMAIN output_file = DOMAIN all_results
        /\ \A i \in DOMAIN all_results :
              \A f \in RecommendationFields :
                  /\ f \in DOMAIN output_file[i]
                  /\ output_file[i][f] = all_results[i].decision[f]

(***************************************************************************)
(* The grade on its own: _assign_grade is called with two scores, in       *)
(* hundredths, on and beside every threshold and outside 0..100            *)
(***************************************************************************)
GradeThresholds == {5500, 6000, 6500, 7000, 7500, 8000, 8500, 9000}

GradeScores ==
    {t + d : t \in GradeThresholds, d \in {0 - 1, 0, 1}}
    \cup {0 - 100000, 0 - 1, 0, 2500, 9999, 10000, 10001, 100000}

InitGrade ==
    /\ clock = StartYear
    /\ market_data = MarketTable
    /\ properties = <<PROP001>>
    /\ idx = 1
    /\ pc = "grade"
    /\ results \in {[score |-> a, other |-> b] : a \in GradeScores, b \in GradeScores}
    /\ all_results = <<>>
    /\ output_file = <<>>

AssignGrade ==
    /\ pc = "grade"
    /\ results' = [score |-> results.score, other |-> results.other,
                   grade |-> assign_grade(Dec(results.score)),
                   other_grade |-> assign_grade(Dec(results.other))]
    /\ pc' = "graded"
    /\ UNCHANGED <<clock, market_data, properties, idx, all_results, output_file>>

NextGrade == AssignGrade

SpecGrade == InitGrade /\ [][NextGrade]_vars

\* the grades from the lowest to the highest
Grades == <<"D", "C", "C+", "B-", "B", "B+", "A-", "A", "A+">>

GradeRank(grade) == CHOOSE k \in DOMAIN Grades : Grades[k] = grade

\* the grade the table of inclusive lower bounds gives a score in hundredths
GradeByLowerBound(score) ==
    Grades[1 + Cardinality({t \in GradeThresholds : score >= t})]

\* C19: every score, also below 0 and above 100, gets exactly the grade of the
\* table of inclusive lower bounds (90 A+, 85 A, 80 A-, 75 B+, 70 B, 65 B-,
\* 60 C+, 55 C, else D), and of two scores the higher never gets the lower grade
C19_GradeByLowerBounds ==
    pc = "graded" =>
        /\ results.grade = GradeByLowerBound(results.score)
        /\ results.other_grade = GradeByLowerBound(results.other)
        /\ results.score <= results.other =>
               GradeRank(results.grade) <= GradeRank(results.other_grade)

\* a score exactly on a threshold and a score just below it are graded, and the
\* grades differ
C19_Witness ==
    /\ pc = "graded"
    /\ results.score = 8500
    /\ results.other = 8499
    /\ results.grade = "A"
    /\ results.other_grade = "A-"

\* the recommendation and the grade of a decision are those of the score
RecommendedBy(decision, score) ==
    /\ decision.recommendation = "Strong Buy" <=> FLe(FInt(80), score)
    /\ decision.recommendation = "Buy" <=> (FLe(FInt(70), score) /\ FLt(score, FInt(80)))
    /\ decision.recommendation = "Consider" <=> (FLe(FInt(60), score) /\ FLt(score, FInt(70)))
    /\ decision.recommendation = "Pass" <=> FLt(score, FInt(60))
    /\ decision.investment_grade = assign_grade(score)

\* C20: a decision made on a monthly_cash_flow > 0 recommends Strong Buy exactly
\* when the weighted overall score is >= 80, Buy exactly when it is in [70, 80),
\* Consider exactly when it is in [60, 70) and Pass exactly when it is below 60;
\* the score is the one the grade is assigned from, so that Strong Buy goes with
\* the grades A+, A, A-, Buy with B+, B, Consider with B-, C+ and Pass with C, D
C20_RecommendationByScore ==
    (Decided /\ results.financial.monthly_cash_flow > 0) =>
        /\ RecommendedBy(results.decision,
                         overall_score(calculate_financial_score(results.financial),
                                       Dec(results.market.location_score),
                                       Dec(results.evaluation.condition_score)))
        /\ results.decision.recommendation = "Strong Buy"
              <=> results.decision.investment_grade \in {"A+", "A", "A-"}
        /\ results.decision.recommendation = "Buy"
              <=> results.decision.investment_grade \in {"B+", "B"}
        /\ results.decision.recommendation = "Consider"
              <=> results.decision.investment_grade \in {"B-", "C+"}
        /\ results.decision.recommendation = "Pass"
              <=> results.decision.investment_grade \in {"C", "D"}

\* a decision on a positive cash flow whose weighted score is below 80 and rounds
\* to 80.0: it recommends Buy with a grade of B+
C20_Witness ==
    /\ Decided
    /\ results.financial.monthly_cash_flow > 0
    /\ results.decision.overall_score = H(80)
    /\ results.decision.recommendation = "Buy"
    /\ results.decision.investment_grade = "B+"

(***************************************************************************)
(* The decision engine on every combination of the seven risk checks: each *)
(* input of _assess_risk takes a value on either side of its threshold     *)
(***************************************************************************)
RiskMarkets ==
    {[analyze_market(PROP001) EXCEPT !.market_heat = h, !.crime_index = c,
                                     !.appreciation_rate = a] :
        h \in {"Cool", "Hot"}, c \in {50, 51}, a \in {399, 400}}

RiskIssues == <<"Roof may need replacement soon", "HVAC system likely aging",
                "High HOA fees impact cash flow">>

RiskEvaluations ==
    {[evaluate_property(PROP001, StartYear) EXCEPT !.condition_score = c,
                                                   !.issues_flagged = SubSeq(RiskIssues, 1, n)] :
        c \in {5990, 6000}, n \in {2, 3}}

RiskMetrics ==
    {[cap_rate |-> c, cash_on_cash_return |-> 0, monthly_cash_flow |-> m,
      annual_cash_flow |-> 12 * m, roi_5_year |-> 1800, break_even_months |-> 999,
      total_investment |-> 97750, net_operating_income |-> 11875] :
        c \in {499, 500}, m \in {199, 200}}

InitRisk ==
    /\ clock = StartYear
    /\ market_data = MarketTable
    /\ properties = <<PROP001>>
    /\ idx = 1
    /\ pc = "decision"
    /\ results \in {[market |-> m, evaluation |-> e, current_year |-> StartYear,
                      financial |-> f] :
                        m \in RiskMarkets, e \in RiskEvaluations, f \in RiskMetrics}
    /\ all_results = <<>>
    /\ output_file = <<>>

SpecRisk == InitRisk /\ [][NextDecision]_vars

\* the checks of lines 164-181 that are true of the three records
RiskChecks(market, prop_eval, metrics) ==
    {c \in {"cool market", "crime", "appreciation", "condition", "issues", "cash flow",
            "cap rate"} :
        \/ c = "cool market" /\ market.market_heat = "Cool"
        \/ c = "crime" /\ market.crime_index > 50
        \/ c = "appreciation" /\ market.appreciation_rate < H(4)
        \/ c = "condition" /\ prop_eval.condition_score < H(60)
        \/ c = "issues" /\ Len(prop_eval.issues_flagged) > 2
        \/ c = "cash flow" /\ metrics.monthly_cash_flow < 200
        \/ c = "cap rate" /\ metrics.cap_rate < H(5)}

RiskCount == Cardinality(RiskChecks(results.market, results.evaluation, results.financial))

\* C21: the risk level of a decision depends only on the number n of the seven
\* checks that are true, each counted once and on its own: High exactly when
\* n >= 4, Medium exactly when n is 2 or 3, Low exactly when n <= 1
C21_RiskByCount ==
    Decided =>
        /\ results.decision.risk_level = "High" <=> RiskCount >= 4
        /\ results.decision.risk_level = "Medium" <=> RiskCount \in {2, 3}
        /\ results.decision.risk_level = "Low" <=> RiskCount <= 1

\* a decision on exactly four true checks, three of them of the market: High
C21_Witness ==
    /\ Decided
    /\ RiskChecks(results.market, results.evaluation, results.financial)
         = {"cool market", "crime", "appreciation", "cap rate"}
    /\ results.decision.risk_level = "High"

(***************************************************************************)
(* The decision engine on the predicates of _identify_strengths and        *)
(* _identify_concerns: the inputs of one list take values on either side   *)
(* of its thresholds while those of the other list's own predicates are    *)
(* at values that do not fire                                              *)
(***************************************************************************)
ListCapRates == {499, 500, 800, 801}
ListCashFlows == {99, 100, 500, 501}
ListRatings == {"Undervalued", "Fair", "Overvalued"}

\* the placeholder, one issue, two issues, and two entries the first of which
\* holds the words line 231 looks for without being the placeholder
ListIssues ==
    { <<"No major concerns identified">>, <<"High HOA fees impact cash flow">>,
      <<"Roof may need replacement soon", "HVAC system likely aging">>,
      <<"Roof: No major concerns", "HVAC system likely aging">> }

\* a market whose appreciation, location, schools, competition and crime are given
ListMarket(a, l, s, c, x) ==
    [analyze_market(PROP001) EXCEPT !.appreciation_rate = a, !.location_score = l,
                                    !.school_rating = s, !.competition_level = c,
                                    !.crime_index = x]

ListEvaluation(v, c, i) ==
    [evaluate_property(PROP001, StartYear) EXCEPT !.value_rating = v, !.condition_score = c,
                                                  !.issues_flagged = i]

ListMetrics ==
    {[cap_rate |-> c, cash_on_cash_return |-> 0, monthly_cash_flow |-> m,
      annual_cash_flow |-> 12 * m, roi_5_year |-> 1800, break_even_months |-> 999,
      total_investment |-> 97750, net_operating_income |-> 11875] :
        c \in ListCapRates, m \in ListCashFlows}

StrengthInputs ==
    {[market |-> ListMarket(a, l, s, "Medium", 45),
      evaluation |-> ListEvaluation(v, 7000, <<"No major concerns identified">>),
      current_year |-> StartYear, financial |-> f] :
        a \in {700, 701}, l \in {8000, 8010}, s \in {790, 800}, v \in ListRatings,
        f \in ListMetrics}

ConcernInputs ==
    {[market |-> ListMarket(700, 8000, 790, c, x),
      evaluation |-> ListEvaluation(v, k, i),
      current_year |-> StartYear, financial |-> f] :
        c \in {"High", "Medium"}, x \in {45, 46}, v \in {"Fair", "Overvalued"},
        k \in {6990, 7000}, i \in ListIssues, f \in ListMetrics}

InitLists ==
    /\ clock = StartYear
    /\ market_data = MarketTable
    /\ properties = <<PROP001>>
    /\ idx = 1
    /\ pc = "decision"
    /\ results \in StrengthInputs \cup ConcernInputs
    /\ all_results = <<>>
    /\ output_file = <<>>

SpecLists == InitLists /\ [][NextDecision]_vars

\* the texts of the strengths and of the concerns, in the order of their predicates
StrengthOrder ==
    <<"Excellent cap rate", "Strong cash flow", "High appreciation market",
      "Premium location", "Property priced below market", "Excellent schools">>

ConcernOrder ==
    <<"Minimal cash flow cushion", "Low cap rate", "High buyer competition in market",
      "Property may need significant repairs", "Property priced above market average",
      "Above-average crime in area", "potential property issues">>

\* the predicate of a strength (lines 197-208) is true of the records in results
StrengthFired(text) ==
    \/ text = "Excellent cap rate" /\ results.financial.cap_rate > H(8)
    \/ text = "Strong cash flow" /\ results.financial.monthly_cash_flow > 500
    \/ text = "High appreciation market" /\ results.market.appreciation_rate > H(7)
    \/ text = "Premium location" /\ results.market.location_score > H(80)
    \/ text = "Property priced below market" /\ results.evaluation.value_rating = "Undervalued"
    \/ text = "Excellent schools" /\ results.market.school_rating >= H(8)

\* the predicate of a concern (lines 219-231) is true of the records in results
ConcernFired(text) ==
    \/ text = "Minimal cash flow cushion" /\ results.financial.monthly_cash_flow < 100
    \/ text = "Low cap rate" /\ results.financial.cap_rate < H(5)
    \/ text = "High buyer competition in market" /\ results.market.competition_level = "High"
    \/ text = "Property may need significant repairs"
          /\ results.evaluation.condition_score < H(70)
    \/ text = "Property priced above market average"
          /\ results.evaluation.value_rating = "Overvalued"
    \/ text = "Above-average crime in area" /\ results.market.crime_index > 45
    \/ text = "potential property issues"
          /\ Len(results.evaluation.issues_flagged) > 1
          /\ ~str_contains(results.evaluation.issues_flagged[1], "No major concerns")

\* the texts of a list of messages
Texts(messages) == [k \in DOMAIN messages |-> messages[k][1]]

\* a list holds the default sentence alone when nothing fired, and otherwise the
\* fired entries in their order, without the default sentence
ListOf(texts, fired, default) ==
    /\ Len(texts) >= 1
    /\ (\E k \in DOMAIN texts : texts[k] = default) <=> fired = <<>>
    /\ fired = <<>> => texts = <<default>>
    /\ fired # <<>> => texts = fired

\* C22: key_strengths and key_concerns of a decision are never empty; the default
\* sentence is in a list exactly when no predicate of the list is true, and is
\* then its only element; otherwise the list holds the entries of the true
\* predicates in the order of the predicates
C22_ListsNonEmptyInOrder ==
    Decided =>
        /\ ListOf(Texts(results.decision.key_strengths),
                  SelectSeq(StrengthOrder, StrengthFired),
                  "Meets basic investment criteria")
        /\ ListOf(Texts(results.decision.key_concerns),
                  SelectSeq(ConcernOrder, ConcernFired),
                  "No significant concerns identified")

\* a decision on which all six strength predicates are true and no concern
\* predicate is: six strengths in order and the default concern alone
C22_Witness ==
    /\ Decided
    /\ Len(results.decision.key_strengths) = 6
    /\ Texts(results.decision.key_strengths) = StrengthOrder
    /\ Texts(results.decision.key_concerns) = <<"No significant concerns identified">>

\* C23: the issues_flagged list of an evaluation is never empty; it holds the
\* placeholder "No major concerns identified" exactly when no issue threshold
\* applies (the age is at most 25 and the property is not a condo with hoa_fees
\* above 400), and the placeholder is then its only element
C23_PlaceholderAlone ==
    Evaluated =>
        /\ Len(results.evaluation.issues_flagged) >= 1
        /\ Flagged("No major concerns identified")
              <=> (EvaluatedAge <= 25
                   /\ ~(properties[idx].property_type = "Condo"
                        /\ properties[idx].hoa_fees > 400))
        /\ Flagged("No major concerns identified")
              => results.evaluation.issues_flagged = <<"No major concerns identified">>

\* a condo of exactly 25 years with HOA fees of exactly 400: no threshold
\* applies and the list is the placeholder alone
C23_Witness ==
    /\ Evaluated
    /\ EvaluatedAge = 25
    /\ properties[idx].property_type = "Condo"
    /\ properties[idx].hoa_fees = 400
    /\ results.evaluation.issues_flagged = <<"No major concerns identified">>

\* the number of entries of an issues_flagged list other than the placeholder
RealIssues(issues) ==
    Cardinality({k \in DOMAIN issues : issues[k] # "No major concerns identified"})

\* the risk level of n true checks (lines 183-188)
LevelOf(n) == IF n >= 4 THEN "High" ELSE IF n >= 2 THEN "Medium" ELSE "Low"

\* the number of true risk checks when the issues check counts real issues only
RiskCountOfReal(market, prop_eval, metrics) ==
    Cardinality(RiskChecks(market, prop_eval, metrics) \ {"issues"})
    + (IF RealIssues(prop_eval.issues_flagged) > 2 THEN 1 ELSE 0)

\* the concerns "N potential property issues" of a decision, as the set of their N
IssueConcerns(decision) ==
    {decision.key_concerns[k][2] :
        k \in {j \in DOMAIN decision.key_concerns :
                  decision.key_concerns[j][1] = "potential property issues"}}

\* C24: on the evaluation evaluate_property produced, the decision has the
\* concern "N potential property issues" exactly when the evaluator flagged two
\* or more real issues, N is then their number, and the risk level is that of
\* the six other checks plus one only for more than 2 real issues: the
\* placeholder is never counted
C24_PlaceholderNotCounted ==
    Decided =>
        /\ IssueConcerns(results.decision) # {}
              <=> RealIssues(results.evaluation.issues_flagged) >= 2
        /\ IssueConcerns(results.decision)
              \subseteq {RealIssues(results.evaluation.issues_flagged)}
        /\ results.decision.risk_level
              = LevelOf(RiskCountOfReal(results.market, results.evaluation, results.financial))

\* a decision of the pipeline on an evaluation that holds the placeholder alone:
\* the decision has other concerns and none about property issues
C24_Witness ==
    /\ Decided
    /\ properties[idx].price > 0
    /\ results.evaluation.issues_flagged = <<"No major concerns identified">>
    /\ IssueConcerns(results.decision) = {}
    /\ Len(results.decision.key_concerns) >= 2

\* C25: the investment_grade of a decision is the grade, by the table of lower
\* bounds, of the overall_score the same record reports (the score rounded to
\* one decimal): a reported 80.0 or more carries A+, A or A-, and a reported
\* 60.0 or more never carries C or D
C25_GradeOfReportedScore ==
    Decided =>
        results.decision.investment_grade = GradeByLowerBound(results.decision.overall_score)

\* C26: 999 is an unambiguous sentinel: in the metrics of a valid property
\* break_even_months is 999 only when the monthly cash flow is <= 0, a positive
\* monthly cash flow has a break_even_months below 999, and the payback
\* timeline reads "Does not break even" only when the cash flow is <= 0
C26_SentinelUnambiguous ==
    \A i \in ValidResults :
        /\ all_results[i].financial.break_even_months = 999
              => all_results[i].financial.monthly_cash_flow <= 0
        /\ all_results[i].financial.monthly_cash_flow > 0
              => /\ all_results[i].financial.break_even_months < 999
                 /\ payback_timeline(all_results[i].financial) # <<"Does not break even">>

\* the sign of an integer
Sign(n) == IF n > 0 THEN 1 ELSE IF n < 0 THEN 0 - 1 ELSE 0

\* C27: in the metrics of a valid property the reported annual_cash_flow is 12
\* times the reported monthly_cash_flow, and the two have the same sign
C27_AnnualIsTwelveMonthly ==
    \A i \in ValidResults :
        /\ all_results[i].financial.annual_cash_flow
              = 12 * all_results[i].financial.monthly_cash_flow
        /\ Sign(all_results[i].financial.annual_cash_flow)
              = Sign(all_results[i].financial.monthly_cash_flow)

\* C28: a property built in or before the year of its evaluation has a
\* condition_score of at least 70, and the decisions of the pipeline never have
\* the risk check condition_score < 60 true, never the concern "Property may
\* need significant repairs", and at most 6 of the 7 risk checks true
C28_ConditionAtLeast70 ==
    /\ (pc \in {"financial", "decision", "append"}
        /\ properties[idx].year_built <= results.current_year)
          => results.evaluation.condition_score >= H(70)
    /\ Decided =>
          /\ "condition" \notin RiskChecks(results.market, results.evaluation,
                                           results.financial)
          /\ \A k \in DOMAIN results.decision.key_concerns :
                results.decision.key_concerns[k][1] # "Property may need significant repairs"
          /\ RiskCount <= 6

\* a decision on a property of more than 40 years, whose penalty is the cap of 30
\* points: the condition score is exactly 70
C28_Witness ==
    /\ Decided
    /\ results.current_year - properties[idx].year_built > 40
    /\ results.evaluation.condition_score = H(70)
    /\ Len(results.evaluation.issues_flagged) = 4

\* the concerns of a stored decision include a low cap rate
LowCapRateConcern(decision) ==
    \E k \in DOMAIN decision.key_concerns : decision.key_concerns[k][1] = "Low cap rate"

\* C29: the metrics of a valid property that report a monthly_cash_flow > 0
\* report a cap_rate above 5, and a recommendation of the pipeline other than
\* "Pass" has neither the concern "Low cap rate" nor the risk check cap_rate < 5
C29_PositiveFlowCapAbove5 ==
    \A i \in ValidResults :
        /\ all_results[i].financial.monthly_cash_flow > 0
              => all_results[i].financial.cap_rate > H(5)
        /\ all_results[i].decision.recommendation # "Pass"
              => /\ ~LowCapRateConcern(all_results[i].decision)
                 /\ "cap rate" \notin RiskChecks(all_results[i].market,
                                                 all_results[i].evaluation,
                                                 all_results[i].financial)

\* a valid property with a small positive cash flow, a cap rate below 7 and a
\* recommendation other than "Pass"
C29_Witness ==
    \E i \in ValidResults :
        /\ all_results[i].financial.monthly_cash_flow > 0
        /\ all_results[i].financial.monthly_cash_flow < 100
        /\ all_results[i].financial.cap_rate < H(7)
        /\ all_results[i].decision.recommendation # "Pass"

\* C30: the rationale agrees with the recommendation: the template of the top
\* band ("strong fundamentals ... an excellent investment opportunity") comes
\* only with "Strong Buy" and the template of the second band ("solid
\* investment potential") only with "Buy", so neither comes with "Pass"
C30_RationaleAgrees ==
    Decided =>
        /\ results.decision.rationale[1] = "strong fundamentals across all metrics"
              => results.decision.recommendation = "Strong Buy"
        /\ results.decision.rationale[1] = "solid investment potential"
              => results.decision.recommendation = "Buy"
====
